---------------------------- MODULE Spec2Model ----------------------------
(***************************************************************************)
(* FlyingWx: the report line parser, the minima comparator, the text       *)
(* highlighter (src/lib/weatherParser.ts), the PIREP/SIGMET extractors and *)
(* the station status classifier (src/pages/index.tsx, lines 684-1079,     *)
(* the same code as src/lib/weatherApi.ts, lines 213-536), the minima      *)
(* state of the pilot view (src/components/MinimaControls.tsx,             *)
(* src/components/WeatherTile.tsx, src/pages/index.tsx, lines 278-299),    *)
(* the station code check of fetchWeatherData and fetchStationStatus, the  *)
(* intensity and severity mappers of the extractors, the station lists of  *)
(* the page with their asynchronous loads (src/pages/index.tsx, lines      *)
(* 105-273) and the response caches of fetchWithCache and of the           *)
(* /api/weather handler.                                                   *)
(*                                                                         *)
(* Strings are TLA+ strings: Len, SubSeq and \o act on them character by   *)
(* character, so the regular expressions of the source are modelled by     *)
(* what they match, position by position.  Numbers are rationals n/d, so   *)
(* that 1/2SM is one half and not a rounded integer; Infinity and NaN are  *)
(* the JavaScript values of the same name.  Times are milliseconds.        *)
(***************************************************************************)
EXTENDS Integers, Sequences, FiniteSets, TLC

VARIABLES
    pc,             \* "ready" before the call, "done" once it has returned
    \* pilot view: a call of highlightWeatherText
    rawText,        \* its rawText argument
    minima,         \* its minima argument
    lineResults,    \* per line of rawText: what the map callback computed
    html,           \* the html it returned
    hasViolations,  \* the hasViolations it returned
    \* dispatcher view: a call of fetchStationStatus
    now,            \* the clock value read by `new Date()` in the extractors
    dateNow,        \* the value of the later Date.now() calls inside the maps
    weatherData,    \* what fetchWeatherData returned
    pirepData,      \* the payload fetchWithCache returned for the PIREPs
    sigmetData,     \* the payload fetchWithCache returned for the SIGMETs
    builtPireps,    \* the records fetchPIREPs' map built, before its filter
    builtSigmets,   \* the records fetchSIGMETs' map built, before its filter
    stationStatus,  \* the StationStatus returned
    statusSteps,    \* operationalStatus after each assignment of the fold
    \* pilot view: the minima state of the page
    ceilingInput,   \* MinimaControls: the text of the ceiling field
    visInput,       \* MinimaControls: the text of the visibility field
    globalMinima,   \* the page's globalMinima
    individualMinima, \* the page's individualMinima: per tile, <<>> or <<m>>
    \* a call of fetchWeatherData or fetchStationStatus with a station code
    icao,           \* the station code handed over
    metarData,      \* what fetchWithCache returns for the METAR request
    tafData,        \* what fetchWithCache returns for the TAF request
    callResult,     \* <<>>, or how the call ended: thrown or returned
    \* the mappers of the extractors, called with a payload field
    conditionArg,   \* a turbulenceCondition / icingCondition of a PIREP payload
    sigmetArg,      \* the severity and hazard fields of a SIGMET payload
    mapped,         \* <<>>, or the mapper that ran and the level it returned
    \* the station lists of the page and its asynchronous calls
    viewMode,       \* the view shown: pilot or dispatcher
    weatherICAOs,   \* the page's weatherICAOs, the pilot's station codes
    dispatcherStations,\* the page's dispatcherStations, a list of StationStatus
    selectedStation,\* the icao of selectedStationDetails, or NoStation
    isLoading,      \* the page's isLoading
    inFlight,       \* the asynchronous calls that await their fetches
    removedStations,\* the codes removed from dispatcherStations and not added since
    \* the response caches of the browser and of the /api/weather handler
    side,           \* where the calls run: the browser or the server
    clock,          \* what Date.now() returns
    cache,          \* src/pages/index.tsx: cache, per key <<>> or an entry
    serverCache,    \* api/weather/[icao].ts: cache, per key <<>> or an entry
    requests,       \* the calls that await their fetch
    answer          \* <<>>, or how the last call was answered

parserVars == <<rawText, minima, lineResults, html, hasViolations>>

statusVars == <<now, dateNow, weatherData, pirepData, sigmetData, builtPireps,
                builtSigmets, stationStatus, statusSteps>>

minimaVars == <<ceilingInput, visInput, globalMinima, individualMinima>>

fetchVars == <<icao, metarData, tafData, callResult>>

mappingVars == <<conditionArg, sigmetArg, mapped>>

pageVars == <<viewMode, weatherICAOs, dispatcherStations, selectedStation,
              isLoading, inFlight, removedStations>>

cacheVars == <<side, clock, cache, serverCache, requests, answer>>

vars == <<pc, rawText, minima, lineResults, html, hasViolations, now,
          dateNow, weatherData, pirepData, sigmetData, builtPireps,
          builtSigmets, stationStatus, statusSteps, ceilingInput,
          visInput, globalMinima, individualMinima, icao, metarData,
          tafData, callResult, conditionArg, sigmetArg, mapped, viewMode,
          weatherICAOs, dispatcherStations, selectedStation, isLoading,
          inFlight, removedStations, side, clock, cache, serverCache,
          requests, answer>>

---------------------------------------------------------------------------
(* JavaScript numbers: rationals, Infinity and NaN.                        *)

Num(k) ==
    [n |-> k, d |-> 1]

Frac(a, b) ==
    [n |-> a, d |-> b]

Infinity ==
    [n |-> 1, d |-> 0]

NaN ==
    [n |-> 0, d |-> 0]

IsNaN(x) ==
    x.n = 0 /\ x.d = 0

IsInfinity(x) ==
    x.n > 0 /\ x.d = 0

\* a / b of two finite numbers, as JavaScript divides: x/0 is Infinity for
\* x > 0 and NaN for x = 0 (the operands here are never negative).
NumDiv(a, b) ==
    IF b.n = 0
    THEN (IF a.n = 0 THEN NaN ELSE Infinity)
    ELSE [n |-> a.n * b.d, d |-> a.d * b.n]

\* a < b and a >= b of JavaScript: false as soon as one side is NaN.
NumLT(a, b) ==
    IF IsNaN(a) \/ IsNaN(b) THEN FALSE
    ELSE IF IsInfinity(a) THEN FALSE
    ELSE IF IsInfinity(b) THEN TRUE
    ELSE a.n * b.d < b.n * a.d

NumGE(a, b) ==
    IF IsNaN(a) \/ IsNaN(b) THEN FALSE
    ELSE IF IsInfinity(a) THEN TRUE
    ELSE IF IsInfinity(b) THEN FALSE
    ELSE a.n * b.d >= b.n * a.d

NumEq(a, b) ==
    IF IsNaN(a) \/ IsNaN(b) THEN FALSE
    ELSE IF IsInfinity(a) \/ IsInfinity(b) THEN IsInfinity(a) /\ IsInfinity(b)
    ELSE a.n * b.d = b.n * a.d

---------------------------------------------------------------------------
(* Strings.                                                                *)

CharAt(s, i) ==
    IF i >= 1 /\ i <= Len(s) THEN SubSeq(s, i, i) ELSE ""

\* the literal lit stands in s at position i
LitAt(s, i, lit) ==
    /\ i >= 1
    /\ i + Len(lit) - 1 <= Len(s)
    /\ SubSeq(s, i, i + Len(lit) - 1) = lit

\* \d
IsDigit(c) ==
    c \in {"0", "1", "2", "3", "4", "5", "6", "7", "8", "9"}

\* \s, and the characters String.prototype.trim removes
IsSpace(c) ==
    c \in {" ", "\t", "\n", "\r"}

DigitValue(c) ==
    CASE c = "0" -> 0 [] c = "1" -> 1 [] c = "2" -> 2 [] c = "3" -> 3
      [] c = "4" -> 4 [] c = "5" -> 5 [] c = "6" -> 6 [] c = "7" -> 7
      [] c = "8" -> 8 [] c = "9" -> 9

\* the end of the run of digits that starts at i (i - 1 when there is none)
RECURSIVE DigitRunEnd(_, _)
DigitRunEnd(s, i) ==
    IF IsDigit(CharAt(s, i)) THEN DigitRunEnd(s, i + 1) ELSE i - 1

\* the end of the run of white space that starts at i (i - 1 when none)
RECURSIVE SpaceRunEnd(_, _)
SpaceRunEnd(s, i) ==
    IF IsSpace(CharAt(s, i)) THEN SpaceRunEnd(s, i + 1) ELSE i - 1

\* parseInt(s, 10) and Number(s) of a string of digits
RECURSIVE DigitsValue(_)
DigitsValue(s) ==
    IF Len(s) = 0 THEN 0
    ELSE 10 * DigitsValue(SubSeq(s, 1, Len(s) - 1)) + DigitValue(CharAt(s, Len(s)))

\* parseInt(s, 10): the leading digits of s, NaN when s starts with none
parseInt(s) ==
    IF IsDigit(CharAt(s, 1))
    THEN Num(DigitsValue(SubSeq(s, 1, DigitRunEnd(s, 1))))
    ELSE NaN

\* String.prototype.match without the g flag starts at the leftmost position
\* where the pattern matches: the least of the positions at, 0 when there is
\* none.
FirstMatch(at) ==
    IF at = {} THEN 0 ELSE CHOOSE i \in at : \A j \in at : i <= j

\* String.prototype.includes
includes(s, sub) ==
    \E i \in 1..(Len(s) + 1) : LitAt(s, i, sub)

\* String.prototype.trim
RECURSIVE trimStart(_)
trimStart(s) ==
    IF Len(s) > 0 /\ IsSpace(CharAt(s, 1))
    THEN trimStart(SubSeq(s, 2, Len(s)))
    ELSE s

RECURSIVE trimEnd(_)
trimEnd(s) ==
    IF Len(s) > 0 /\ IsSpace(CharAt(s, Len(s)))
    THEN trimEnd(SubSeq(s, 1, Len(s) - 1))
    ELSE s

trim(s) ==
    trimEnd(trimStart(s))

\* String.prototype.split('\n'): the sequence of the lines of s
RECURSIVE split(_)
split(s) ==
    LET nl == FirstMatch({i \in 1..Len(s) : CharAt(s, i) = "\n"})
    IN  IF nl = 0 THEN <<s>>
        ELSE <<SubSeq(s, 1, nl - 1)>> \o split(SubSeq(s, nl + 1, Len(s)))

---------------------------------------------------------------------------
(* src/lib/weatherParser.ts                                                *)

\* /(BKN|OVC|VV)(\d{3})/ matches at i: the length of group 1, 0 for no match
cloudGroupAt(line, i) ==
    LET three(j) == /\ IsDigit(CharAt(line, j))
                    /\ IsDigit(CharAt(line, j + 1))
                    /\ IsDigit(CharAt(line, j + 2))
    IN  IF CharAt(line, i) \notin {"B", "O", "V"} THEN 0
        ELSE IF (LitAt(line, i, "BKN") \/ LitAt(line, i, "OVC")) /\ three(i + 3) THEN 3
        ELSE IF LitAt(line, i, "VV") /\ three(i + 2) THEN 2
        ELSE 0

\* /(P?\d{1,2})SM/ matches at i: the length of group 1, 0 for no match.
\* P? and \d{1,2} are greedy; two digits and one digit before SM exclude
\* each other, and a P at i leaves no match without it.
visGroupAt(line, i) ==
    LET digits(j) ==
            IF ~IsDigit(CharAt(line, j)) THEN 0
            ELSE IF IsDigit(CharAt(line, j + 1)) /\ LitAt(line, j + 2, "SM") THEN 2
            ELSE IF LitAt(line, j + 1, "SM") THEN 1
            ELSE 0
    IN  IF CharAt(line, i) = "P"
        THEN (IF digits(i + 1) > 0 THEN 1 + digits(i + 1) ELSE 0)
        ELSE digits(i)

\* mutant: the last cloud group of the line is taken, not the first
parseWeatherLine_LastCloud(line) ==
    LET at == {i \in 1..Len(line) : cloudGroupAt(line, i) > 0}
        cloudAt == IF at = {} THEN 0 ELSE CHOOSE i \in at : \A j \in at : j <= i
        cloudLen == cloudGroupAt(line, cloudAt)
        visAt == FirstMatch({i \in 1..Len(line) : visGroupAt(line, i) > 0})
        vis1 == SubSeq(line, visAt, visAt + visGroupAt(line, visAt) - 1)
    IN  [ceiling   |-> IF cloudAt = 0 THEN Infinity
                       ELSE Num(parseInt(SubSeq(line, cloudAt + cloudLen,
                                                cloudAt + cloudLen + 2)).n * 100),
         visMiles  |-> IF visAt = 0 THEN Infinity
                       ELSE IF LitAt(vis1, 1, "P")
                       THEN parseInt(SubSeq(vis1, 2, Len(vis1)))
                       ELSE parseInt(vis1),
         isGreater |-> visAt # 0 /\ LitAt(line, visAt, "P")]

\* mutant: ceiling and visMiles start at 0, not at Infinity
parseWeatherLine_ZeroDefault(line) ==
    LET cloudAt == FirstMatch({i \in 1..Len(line) : cloudGroupAt(line, i) > 0})
        cloudLen == cloudGroupAt(line, cloudAt)
        visAt == FirstMatch({i \in 1..Len(line) : visGroupAt(line, i) > 0})
        vis1 == SubSeq(line, visAt, visAt + visGroupAt(line, visAt) - 1)
    IN  [ceiling   |-> IF cloudAt = 0 THEN Num(0)
                       ELSE Num(parseInt(SubSeq(line, cloudAt + cloudLen,
                                                cloudAt + cloudLen + 2)).n * 100),
         visMiles  |-> IF visAt = 0 THEN Num(0)
                       ELSE IF LitAt(vis1, 1, "P")
                       THEN parseInt(SubSeq(vis1, 2, Len(vis1)))
                       ELSE parseInt(vis1),
         isGreater |-> visAt # 0 /\ LitAt(line, visAt, "P")]

parseWeatherLine(line) ==
    LET ceilingOf(cloudAt, cloudLen) ==
            IF cloudAt = 0 THEN Infinity
            ELSE Num(parseInt(SubSeq(line, cloudAt + cloudLen,
                                     cloudAt + cloudLen + 2)).n * 100)
        visMilesOf(visAt, vis1) ==
            IF visAt = 0 THEN Infinity
            ELSE IF LitAt(vis1, 1, "P") THEN parseInt(SubSeq(vis1, 2, Len(vis1)))
            ELSE parseInt(vis1)
        conditions(cloudAt, visAt) ==
            [ceiling   |-> ceilingOf(cloudAt, cloudGroupAt(line, cloudAt)),
             visMiles  |-> visMilesOf(visAt,
                               SubSeq(line, visAt,
                                      visAt + visGroupAt(line, visAt) - 1)),
             isGreater |-> visAt # 0 /\ LitAt(line, visAt, "P")]
    IN  conditions(FirstMatch({i \in 1..Len(line) : cloudGroupAt(line, i) > 0}),
                   FirstMatch({i \in 1..Len(line) : visGroupAt(line, i) > 0}))

\* mutant: the greater-than prefix is not looked at
checkConditionsAgainstMinima_NoGreater(conditions, m) ==
    LET visOk  == NumGE(conditions.visMiles, m.vis)
        ceilOk == NumGE(conditions.ceiling, m.ceiling)
    IN  visOk /\ ceilOk

\* mutant: the comparison is strict, a value at the minimum fails
checkConditionsAgainstMinima_Strict(conditions, m) ==
    LET visOk  == conditions.isGreater \/ NumLT(m.vis, conditions.visMiles)
        ceilOk == NumLT(m.ceiling, conditions.ceiling)
    IN  visOk /\ ceilOk

checkConditionsAgainstMinima(conditions, m) ==
    LET visOk  == conditions.isGreater \/ NumGE(conditions.visMiles, m.vis)
        ceilOk == NumGE(conditions.ceiling, m.ceiling)
    IN  visOk /\ ceilOk

\* mutant: a failing line is flagged only when both ceiling and visibility
\* were parsed
highlightLine_BothParsed(line, m) ==
    LET wrap(trimmedLine, conditions, meetsMinima, flagged) ==
            [line        |-> line,
             blank       |-> trimmedLine = "",
             conditions  |-> conditions,
             meetsMinima |-> meetsMinima,
             flagged     |-> flagged,
             wrapper     |-> IF trimmedLine = "" THEN "<div></div>"
                             ELSE IF flagged
                             THEN "<div class=\"text-red-400 font-bold\">"
                                  \o trimmedLine \o "</div>"
                             ELSE "<div>" \o trimmedLine \o "</div>"]
        flag(trimmedLine, conditions, meetsMinima) ==
            wrap(trimmedLine, conditions, meetsMinima,
                 /\ trimmedLine # ""
                 /\ ~meetsMinima
                 /\ ~IsInfinity(conditions.ceiling)
                 /\ ~IsInfinity(conditions.visMiles))
        check(trimmedLine, conditions) ==
            flag(trimmedLine, conditions,
                 checkConditionsAgainstMinima(conditions, m))
        parse(trimmedLine) ==
            check(trimmedLine, parseWeatherLine(trimmedLine))
    IN  parse(trim(line))

\* the callback of lines.map: the wrapper of one line, and whether the line
\* is flagged (the callback then sets hasViolations)
highlightLine(line, m) ==
    LET wrap(trimmedLine, conditions, meetsMinima, flagged) ==
            [line        |-> line,
             blank       |-> trimmedLine = "",
             conditions  |-> conditions,
             meetsMinima |-> meetsMinima,
             flagged     |-> flagged,
             wrapper     |-> IF trimmedLine = "" THEN "<div></div>"
                             ELSE IF flagged
                             THEN "<div class=\"text-red-400 font-bold\">"
                                  \o trimmedLine \o "</div>"
                             ELSE "<div>" \o trimmedLine \o "</div>"]
        flag(trimmedLine, conditions, meetsMinima) ==
            wrap(trimmedLine, conditions, meetsMinima,
                 /\ trimmedLine # ""
                 /\ ~meetsMinima
                 /\ (~IsInfinity(conditions.ceiling)
                     \/ ~IsInfinity(conditions.visMiles)))
        check(trimmedLine, conditions) ==
            flag(trimmedLine, conditions,
                 checkConditionsAgainstMinima(conditions, m))
        parse(trimmedLine) ==
            check(trimmedLine, parseWeatherLine(trimmedLine))
    IN  parse(trim(line))

\* Array.prototype.join('')
RECURSIVE join(_)
join(parts) ==
    IF Len(parts) = 0 THEN "" ELSE Head(parts) \o join(Tail(parts))

\* lines.map(callback)
RECURSIVE mapLines(_, _)
mapLines(lines, m) ==
    IF Len(lines) = 0 THEN <<>>
    ELSE <<highlightLine(Head(lines), m)>> \o mapLines(Tail(lines), m)

\* Array.prototype.map(callback) that picks the wrapper of each result
RECURSIVE wrappers(_)
wrappers(results) ==
    IF Len(results) = 0 THEN <<>>
    ELSE <<Head(results).wrapper>> \o wrappers(Tail(results))

highlightWeatherText(text, m) ==
    LET render(results) ==
            [html          |-> join(wrappers(results)),
             hasViolations |-> \E k \in 1..Len(results) : results[k].flagged,
             lines         |-> results]
    IN  IF trim(text) = ""
        THEN [html |-> "", hasViolations |-> FALSE, lines |-> <<>>]
        ELSE render(mapLines(split(text), m))

(* src/lib/weatherParser.ts holds a second definition of                   *)
(* highlightWeatherText (lines 108-130) after the first: it has no early   *)
(* return for an empty text, parses and wraps each line as it stands, and  *)
(* flags every failing line that is not white space.  parseWeatherLine and *)
(* checkConditionsAgainstMinima are repeated unchanged (lines 76-106).     *)

\* the callback of lines.map in the second definition
highlightLine2(line, m) ==
    LET wrap(conditions, meetsMinima, flagged) ==
            [line        |-> line,
             blank       |-> trim(line) = "",
             conditions  |-> conditions,
             meetsMinima |-> meetsMinima,
             flagged     |-> flagged,
             wrapper     |-> IF flagged
                             THEN "<div class=\"text-red-400 font-bold\">"
                                  \o line \o "</div>"
                             ELSE "<div>" \o line \o "</div>"]
        flag(conditions, meetsMinima) ==
            wrap(conditions, meetsMinima, ~meetsMinima /\ trim(line) # "")
        check(conditions) ==
            flag(conditions, checkConditionsAgainstMinima(conditions, m))
    IN  check(parseWeatherLine(line))

\* lines.map(callback) of the second definition
RECURSIVE mapLines2(_, _)
mapLines2(lines, m) ==
    IF Len(lines) = 0 THEN <<>>
    ELSE <<highlightLine2(Head(lines), m)>> \o mapLines2(Tail(lines), m)

highlightWeatherText2(text, m) ==
    LET render(results) ==
            [html          |-> join(wrappers(results)),
             hasViolations |-> \E k \in 1..Len(results) : results[k].flagged,
             lines         |-> results]
    IN  render(mapLines2(split(text), m))

---------------------------------------------------------------------------
(* src/pages/index.tsx, lines 977-1079: the helpers of the extractors      *)

UPPER == "ABCDEFGHIJKLMNOPQRSTUVWXYZ"

LOWER == "abcdefghijklmnopqrstuvwxyz"

\* the lower-case letter of each upper-case letter
lowerOf ==
    [c \in {SubSeq(UPPER, i, i) : i \in 1..26} |->
        LET i == CHOOSE j \in 1..26 : SubSeq(UPPER, j, j) = c
        IN  SubSeq(LOWER, i, i)]

RECURSIVE toLowerCase(_)
toLowerCase(s) ==
    IF Len(s) = 0 THEN ""
    ELSE LET c == CharAt(s, 1)
         IN  (IF c \in DOMAIN lowerOf THEN lowerOf[c] ELSE c)
             \o toLowerCase(SubSeq(s, 2, Len(s)))

\* A turbulenceCondition / icingCondition of a payload: absent, a string,
\* or an object with the optional fields intensity and type ("" = absent).
NoCondition ==
    [kind |-> "missing", intensity |-> "", type |-> "", text |-> ""]

ConditionObject(intensity, type) ==
    [kind |-> "object", intensity |-> intensity, type |-> type, text |-> ""]

ConditionString(text) ==
    [kind |-> "string", intensity |-> "", type |-> "", text |-> text]

\* !condition
conditionFalsy(condition) ==
    \/ condition.kind = "missing"
    \/ condition.kind = "string" /\ condition.text = ""

\* safeToLowerCase(condition.intensity || condition.type || condition)
conditionIntensity(condition) ==
    toLowerCase(
        IF condition.kind = "string" THEN condition.text
        ELSE IF condition.intensity # "" THEN condition.intensity
        ELSE IF condition.type # "" THEN condition.type
        ELSE "[object Object]")

\* mutant: the keywords are tried from the lowest level upwards
mapTurbulenceIntensity_LightFirst(condition) ==
    IF conditionFalsy(condition) THEN "NONE"
    ELSE LET intensity == conditionIntensity(condition)
         IN  IF includes(intensity, "light") \/ includes(intensity, "weak")
             THEN "LIGHT"
             ELSE IF includes(intensity, "moderate") THEN "MODERATE"
             ELSE IF includes(intensity, "severe") \/ includes(intensity, "extreme")
             THEN "SEVERE"
             ELSE "NONE"

mapTurbulenceIntensity(condition) ==
    IF conditionFalsy(condition) THEN "NONE"
    ELSE LET intensity == conditionIntensity(condition)
         IN  IF includes(intensity, "severe") \/ includes(intensity, "extreme")
             THEN "SEVERE"
             ELSE IF includes(intensity, "moderate") THEN "MODERATE"
             ELSE IF includes(intensity, "light") \/ includes(intensity, "weak")
             THEN "LIGHT"
             ELSE "NONE"

mapIcingIntensity(condition) ==
    IF conditionFalsy(condition) THEN "NONE"
    ELSE LET intensity == conditionIntensity(condition)
         IN  IF includes(intensity, "severe") \/ includes(intensity, "heavy")
             THEN "SEVERE"
             ELSE IF includes(intensity, "moderate") THEN "MODERATE"
             ELSE IF includes(intensity, "light") THEN "LIGHT"
             ELSE IF includes(intensity, "trace") THEN "TRACE"
             ELSE "NONE"

\* mutant: strong and mild are not known
mapSeverityLevel_NoStrongMild(severity) ==
    IF severity = "" THEN "MODERATE"
    ELSE LET s == toLowerCase(severity)
         IN  IF includes(s, "severe") \/ includes(s, "extreme")
             THEN "SEVERE"
             ELSE IF includes(s, "light") \/ includes(s, "weak")
             THEN "LIGHT"
             ELSE "MODERATE"

\* severity is sigmet.severity || sigmet.hazard, "" when both are absent
mapSeverityLevel(severity) ==
    IF severity = "" THEN "MODERATE"
    ELSE LET s == toLowerCase(severity)
         IN  IF includes(s, "severe") \/ includes(s, "extreme")
                \/ includes(s, "strong")
             THEN "SEVERE"
             ELSE IF includes(s, "light") \/ includes(s, "weak")
                     \/ includes(s, "mild")
             THEN "LIGHT"
             ELSE "MODERATE"

\* /(\d+(?:\s+\d+\/\d+)?|\d+\/\d+)SM/ matches at i: the end of group 1, 0 for
\* no match.  Each \d+ must take its whole run of digits, since no digit may
\* follow it in the pattern; the first alternative is tried first.
metarVisGroupAt(metar, i) ==
    LET e1 == DigitRunEnd(metar, i)
        s2 == SpaceRunEnd(metar, e1 + 1)
        e2 == DigitRunEnd(metar, s2 + 1)
        e3 == DigitRunEnd(metar, e2 + 2)
        f3 == DigitRunEnd(metar, e1 + 2)
    IN  IF ~IsDigit(CharAt(metar, i)) THEN 0
        ELSE IF LitAt(metar, e1 + 1, "SM") THEN e1
        ELSE IF /\ s2 > e1 /\ e2 > s2 /\ CharAt(metar, e2 + 1) = "/"
                /\ e3 > e2 + 1 /\ LitAt(metar, e3 + 1, "SM") THEN e3
        ELSE IF /\ CharAt(metar, e1 + 1) = "/" /\ f3 > e1 + 1
                /\ LitAt(metar, f3 + 1, "SM") THEN f3
        ELSE 0

\* visStr.replace(/\s+/g, '')
RECURSIVE removeSpaces(_)
removeSpaces(s) ==
    IF Len(s) = 0 THEN ""
    ELSE (IF IsSpace(CharAt(s, 1)) THEN "" ELSE CharAt(s, 1))
         \o removeSpaces(SubSeq(s, 2, Len(s)))

\* /(BKN|OVC)(\d{3})/ matches at i
metarCeilingGroupAt(metar, i) ==
    /\ CharAt(metar, i) \in {"B", "O"}
    /\ LitAt(metar, i, "BKN") \/ LitAt(metar, i, "OVC")
    /\ IsDigit(CharAt(metar, i + 3))
    /\ IsDigit(CharAt(metar, i + 4))
    /\ IsDigit(CharAt(metar, i + 5))

parseMetarConditions(metar) ==
    LET visAt   == FirstMatch({i \in 1..Len(metar) : metarVisGroupAt(metar, i) > 0})
        visStr  == removeSpaces(SubSeq(metar, visAt, metarVisGroupAt(metar, visAt)))
        slash   == FirstMatch({i \in 1..Len(visStr) : CharAt(visStr, i) = "/"})
        num     == DigitsValue(SubSeq(visStr, 1, slash - 1))
        den     == DigitsValue(SubSeq(visStr, slash + 1, Len(visStr)))
        ceilAt  == FirstMatch({i \in 1..Len(metar) : metarCeilingGroupAt(metar, i)})
    IN  [visibility |->
            IF metar = "" \/ visAt = 0 THEN Num(10)
            ELSE IF slash # 0
            THEN (IF den # 0 THEN Frac(num, den) ELSE Num(10))
            ELSE parseInt(visStr),
         ceiling |->
            IF metar = "" \/ ceilAt = 0 THEN Num(5000)
            ELSE Num(parseInt(SubSeq(metar, ceilAt + 3, ceilAt + 5)).n * 100)]

---------------------------------------------------------------------------
(* Dates.  A Date is valid with a time in milliseconds, or an Invalid Date *)
(* (what new Date makes of a text that is no date); every comparison with  *)
(* an Invalid Date is false.                                               *)

HourMs ==
    60 * 60 * 1000

DateOf(ms) ==
    [valid |-> TRUE, ms |-> ms]

InvalidDate ==
    [valid |-> FALSE, ms |-> 0]

DateLT(a, b) ==
    a.valid /\ b.valid /\ a.ms < b.ms

DateLE(a, b) ==
    a.valid /\ b.valid /\ a.ms <= b.ms

DateGE(a, b) ==
    a.valid /\ b.valid /\ a.ms >= b.ms

\* A time field of a payload: absent, a text that is no date, or a date.
NoTime ==
    [kind |-> "missing", ms |-> 0]

BadTime ==
    [kind |-> "invalid", ms |-> 0]

TimeAt(ms) ==
    [kind |-> "time", ms |-> ms]

\* new Date(field || fallbackMs)
newDate(field, fallbackMs) ==
    IF field.kind = "missing" THEN DateOf(fallbackMs)
    ELSE IF field.kind = "invalid" THEN InvalidDate
    ELSE DateOf(field.ms)

---------------------------------------------------------------------------
(* src/pages/index.tsx, lines 810-907: the extractors.  data is what       *)
(* fetchWithCache returned: isArray is false for null and for a text;      *)
(* nowMs is the `new Date()` read once before the map, dateNowMs what the  *)
(* later Date.now() calls inside the map return.                           *)

twelveHoursAgo(nowMs) ==
    DateOf(nowMs - 12 * HourMs)

\* mutant: the expiry test takes the 12 hour boundary itself as expired
buildPIREP_ExpiredInclusive(pirep, nowMs, dateNowMs) ==
    LET timestamp ==
            newDate(IF pirep.reportTime.kind # "missing" THEN pirep.reportTime
                    ELSE pirep.obsTime, dateNowMs)
    IN  [turbulence |-> mapTurbulenceIntensity(pirep.turbulenceCondition),
         icing      |-> mapIcingIntensity(pirep.icingCondition),
         timestamp  |-> timestamp,
         isExpired  |-> DateLE(timestamp, twelveHoursAgo(nowMs))]

buildPIREP(pirep, nowMs, dateNowMs) ==
    LET timestamp ==
            newDate(IF pirep.reportTime.kind # "missing" THEN pirep.reportTime
                    ELSE pirep.obsTime, dateNowMs)
    IN  [turbulence |-> mapTurbulenceIntensity(pirep.turbulenceCondition),
         icing      |-> mapIcingIntensity(pirep.icingCondition),
         timestamp  |-> timestamp,
         isExpired  |-> DateLT(timestamp, twelveHoursAgo(nowMs))]

\* data.map(callback)
RECURSIVE mapPIREPItems(_, _, _)
mapPIREPItems(items, nowMs, dateNowMs) ==
    IF Len(items) = 0 THEN <<>>
    ELSE <<buildPIREP(Head(items), nowMs, dateNowMs)>>
         \o mapPIREPItems(Tail(items), nowMs, dateNowMs)

mapPIREPs(data, nowMs, dateNowMs) ==
    IF ~data.isArray THEN <<>>
    ELSE mapPIREPItems(data.items, nowMs, dateNowMs)

\* mutant: the filter keeps every PIREP
keepPIREP_All(pirep, nowMs) ==
    TRUE

keepPIREP(pirep, nowMs) ==
    DateGE(pirep.timestamp, twelveHoursAgo(nowMs))

fetchPIREPs(data, nowMs, dateNowMs) ==
    SelectSeq(mapPIREPs(data, nowMs, dateNowMs), LAMBDA p : keepPIREP(p, nowMs))

\* mutant: isActive forgets the end of the validity window
buildSIGMET_ActiveNoEnd(sigmet, nowMs, dateNowMs) ==
    LET validFrom == newDate(sigmet.validTimeFrom, dateNowMs)
        validTo   == newDate(sigmet.validTimeTo, dateNowMs + 6 * HourMs)
    IN  [severity  |-> mapSeverityLevel(IF sigmet.severity # "" THEN sigmet.severity
                                        ELSE sigmet.hazard),
         validFrom |-> validFrom,
         validTo   |-> validTo,
         isExpired |-> DateLT(validTo, DateOf(nowMs)),
         isActive  |-> DateLE(validFrom, DateOf(nowMs))]

buildSIGMET(sigmet, nowMs, dateNowMs) ==
    LET validFrom == newDate(sigmet.validTimeFrom, dateNowMs)
        validTo   == newDate(sigmet.validTimeTo, dateNowMs + 6 * HourMs)
    IN  [severity  |-> mapSeverityLevel(IF sigmet.severity # "" THEN sigmet.severity
                                        ELSE sigmet.hazard),
         validFrom |-> validFrom,
         validTo   |-> validTo,
         isExpired |-> DateLT(validTo, DateOf(nowMs)),
         isActive  |-> DateLE(validFrom, DateOf(nowMs))
                       /\ DateGE(validTo, DateOf(nowMs))]

\* data.map(callback)
RECURSIVE mapSIGMETItems(_, _, _)
mapSIGMETItems(items, nowMs, dateNowMs) ==
    IF Len(items) = 0 THEN <<>>
    ELSE <<buildSIGMET(Head(items), nowMs, dateNowMs)>>
         \o mapSIGMETItems(Tail(items), nowMs, dateNowMs)

mapSIGMETs(data, nowMs, dateNowMs) ==
    IF ~data.isArray THEN <<>>
    ELSE mapSIGMETItems(data.items, nowMs, dateNowMs)

keepSIGMET(sigmet, nowMs) ==
    \/ DateGE(sigmet.validFrom, twelveHoursAgo(nowMs))
    \/ DateGE(sigmet.validTo, DateOf(nowMs))

fetchSIGMETs(data, nowMs, dateNowMs) ==
    SelectSeq(mapSIGMETs(data, nowMs, dateNowMs), LAMBDA g : keepSIGMET(g, nowMs))

---------------------------------------------------------------------------
(* src/pages/index.tsx, lines 909-975: the station status classifier       *)

NoError == ""

FailedToFetch == "Failed to fetch data"

\* mutant: severe signals raise CAUTION only (the first version of the
\* classifier, src/lib/weatherApi.ts, lines 132-141)
hazardStep_SevereAsCaution(status, pireps, sigmets) ==
    IF \/ \E k \in 1..Len(sigmets) : sigmets[k].isActive
       \/ \E k \in 1..Len(pireps) :
             /\ ~pireps[k].isExpired
             /\ \/ pireps[k].turbulence \in {"SEVERE", "MODERATE"}
                \/ pireps[k].icing \in {"SEVERE", "MODERATE"}
    THEN "CAUTION"
    ELSE status

\* mutant: any SIGMET of the list raises CAUTION, active or not
hazardStep_AnySigmet(status, pireps, sigmets) ==
    IF \/ \E k \in 1..Len(sigmets) : sigmets[k].isActive /\ sigmets[k].severity = "SEVERE"
       \/ \E k \in 1..Len(pireps) :
             /\ ~pireps[k].isExpired
             /\ (pireps[k].turbulence = "SEVERE" \/ pireps[k].icing = "SEVERE")
    THEN "CRITICAL"
    ELSE IF \/ Len(sigmets) > 0
            \/ \E k \in 1..Len(pireps) :
                  /\ ~pireps[k].isExpired
                  /\ (pireps[k].turbulence = "MODERATE" \/ pireps[k].icing = "MODERATE")
    THEN "CAUTION"
    ELSE status

\* mutant: the branches are in the wrong order, the moderate test comes first
hazardStep_ModerateFirst(status, pireps, sigmets) ==
    IF \/ \E k \in 1..Len(sigmets) :
             sigmets[k].isActive /\ sigmets[k].severity # "SEVERE"
       \/ \E k \in 1..Len(pireps) :
             /\ ~pireps[k].isExpired
             /\ (pireps[k].turbulence = "MODERATE" \/ pireps[k].icing = "MODERATE")
    THEN "CAUTION"
    ELSE IF \/ \E k \in 1..Len(sigmets) :
                  sigmets[k].isActive /\ sigmets[k].severity = "SEVERE"
            \/ \E k \in 1..Len(pireps) :
                  /\ ~pireps[k].isExpired
                  /\ (pireps[k].turbulence = "SEVERE" \/ pireps[k].icing = "SEVERE")
    THEN "CRITICAL"
    ELSE status

\* lines 923-940: the SIGMET/PIREP step
hazardStep(status, pireps, sigmets) ==
    LET activeSevereSigmets ==
            SelectSeq(sigmets, LAMBDA g : g.isActive /\ g.severity = "SEVERE")
        severePireps ==
            SelectSeq(pireps, LAMBDA p :
                ~p.isExpired /\ (p.turbulence = "SEVERE" \/ p.icing = "SEVERE"))
    IN  IF Len(activeSevereSigmets) > 0 \/ Len(severePireps) > 0 THEN "CRITICAL"
        ELSE IF \/ \E k \in 1..Len(sigmets) : sigmets[k].isActive
                \/ \E k \in 1..Len(pireps) :
                      /\ ~pireps[k].isExpired
                      /\ (pireps[k].turbulence = "MODERATE"
                          \/ pireps[k].icing = "MODERATE")
        THEN "CAUTION"
        ELSE status

\* mutant: the thresholds are inclusive
metarStep_Inclusive(status, metar) ==
    IF metar = "" THEN status
    ELSE LET conditions == parseMetarConditions(metar)
         IN  IF \/ ~NumLT(Frac(1, 2), conditions.visibility)
                \/ ~NumLT(Num(100), conditions.ceiling)
             THEN "CRITICAL"
             ELSE IF \/ ~NumLT(Num(1), conditions.visibility)
                     \/ ~NumLT(Num(200), conditions.ceiling)
             THEN (IF status = "NORMAL" THEN "CAUTION" ELSE status)
             ELSE status

\* mutant: the second branch assigns CAUTION whatever the status was
metarStep_Overwrite(status, metar) ==
    IF metar = "" THEN status
    ELSE LET conditions == parseMetarConditions(metar)
         IN  IF \/ NumLT(conditions.visibility, Frac(1, 2))
                \/ NumLT(conditions.ceiling, Num(100))
             THEN "CRITICAL"
             ELSE IF \/ NumLT(conditions.visibility, Num(1))
                     \/ NumLT(conditions.ceiling, Num(200))
             THEN "CAUTION"
             ELSE status

\* lines 942-951: the METAR step
metarStep(status, metar) ==
    IF metar = "" THEN status
    ELSE LET conditions == parseMetarConditions(metar)
         IN  IF \/ NumLT(conditions.visibility, Frac(1, 2))
                \/ NumLT(conditions.ceiling, Num(100))
             THEN "CRITICAL"
             ELSE IF \/ NumLT(conditions.visibility, Num(1))
                     \/ NumLT(conditions.ceiling, Num(200))
             THEN (IF status = "NORMAL" THEN "CAUTION" ELSE status)
             ELSE status

\* mutant: the error of the weather data is not looked at
operationalStatusSteps_IgnoreError(wd, pireps, sigmets) ==
    LET afterHazard == hazardStep("NORMAL", pireps, sigmets)
    IN  <<"NORMAL", afterHazard, metarStep(afterHazard, wd.metar)>>

\* operationalStatus after each assignment of lines 918-952
operationalStatusSteps(wd, pireps, sigmets) ==
    IF wd.error # NoError
    THEN <<"NORMAL", "CRITICAL">>
    ELSE LET afterHazard == hazardStep("NORMAL", pireps, sigmets)
         IN  <<"NORMAL", afterHazard, metarStep(afterHazard, wd.metar)>>

fetchStationStatus(wd, pirepPayload, sigmetPayload, nowMs, dateNowMs) ==
    LET pireps  == fetchPIREPs(pirepPayload, nowMs, dateNowMs)
        sigmets == fetchSIGMETs(sigmetPayload, nowMs, dateNowMs)
        steps   == operationalStatusSteps(wd, pireps, sigmets)
    IN  [metar             |-> wd,
         pireps            |-> pireps,
         sigmets           |-> sigmets,
         operationalStatus |-> steps[Len(steps)]]

---------------------------------------------------------------------------
(* The pilot view renders each tile's METAR and TAF through                *)
(* highlightWeatherText with the tile's minima.  The texts are report      *)
(* lines put together from a station prefix, a visibility group and cloud  *)
(* groups.                                                                 *)

MaxLines == 1

PrefixTokens ==
    {"", "KJFK 291951Z 18010KT "}

VisTokens ==
    {"", "1/2SM ", "1 1/2SM ", "3SM ", "P6SM "}

CloudTokens ==
    {"", "BKN005", "OVC020", "FEW010 VV002", "BKN020 OVC005"}

ReportLines ==
    {p \o v \o c : p \in PrefixTokens, v \in VisTokens, c \in CloudTokens}

RECURSIVE ReportTexts(_)
ReportTexts(k) ==
    IF k <= 1 THEN ReportLines
    ELSE ReportTexts(k - 1)
         \cup {t \o "\n" \o l : t \in ReportTexts(k - 1), l \in ReportLines}

DEFAULT_MINIMA ==
    [ceiling |-> Num(800), vis |-> Num(2)]

\* the minima a tile hands over: the inputs of the tile parse to any number,
\* zero and negative numbers included (src/components/WeatherTile.tsx, 68, 80)
MinimaValues ==
    {[ceiling |-> Num(c), vis |-> v] :
        c \in {500, 800}, v \in {Frac(1, 2), Num(1), Num(3), Num(10)}}
    \cup {[ceiling |-> Num(0), vis |-> Num(0)],
          [ceiling |-> Num(0 - 100), vis |-> Num(0 - 1)]}

\* forecasts of several lines, with indented and blank lines, a remark line
\* without any group, and texts of white space only
TafTexts ==
    {"TAF KJFK 291720Z 2918/3024 18010KT 3SM BKN005\n"
        \o "  FM292000 20008KT P6SM OVC020 \n\n  RMK SMOKE VV BKN12",
     "KJFK 0SM OVC000\r\nRMK NXT FCST BY 00Z",
     " ",
     "\n \n"}

ReportTextValues ==
    ReportTexts(MaxLines) \cup TafTexts

\* before any call: the page's state, src/pages/index.tsx, lines 24-34
IdleParser ==
    /\ rawText = ""
    /\ minima = DEFAULT_MINIMA
    /\ lineResults = <<>>
    /\ html = ""
    /\ hasViolations = FALSE

NoWeatherData ==
    [metar |-> "", taf |-> "", error |-> NoError]

NoData ==
    [isArray |-> FALSE, items |-> <<>>]

IdleStatus ==
    /\ now = 0
    /\ dateNow = 0
    /\ weatherData = NoWeatherData
    /\ pirepData = NoData
    /\ sigmetData = NoData
    /\ builtPireps = <<>>
    /\ builtSigmets = <<>>
    /\ stationStatus = <<>>
    /\ statusSteps = <<>>

\* the tiles of the pilot view
TileICAOs ==
    {"CYYT", "KJFK"}

\* the page as it is mounted: src/pages/index.tsx, lines 29-30, and
\* src/components/MinimaControls.tsx, lines 10-11
IdleMinima ==
    /\ ceilingInput = "800"
    /\ visInput = "2"
    /\ globalMinima = DEFAULT_MINIMA
    /\ individualMinima = [i \in TileICAOs |-> <<>>]

\* what fetchWithCache returns when the request failed
Null ==
    [kind |-> "null", items |-> <<>>, text |-> ""]

IdleFetch ==
    /\ icao = ""
    /\ metarData = Null
    /\ tafData = Null
    /\ callResult = <<>>

\* no mapper has been called
IdleMapping ==
    /\ conditionArg = NoCondition
    /\ sigmetArg = [severity |-> "", hazard |-> ""]
    /\ mapped = <<>>

\* selectedStationDetails = null
NoStation == ""

\* the page before a station is entered: src/pages/index.tsx, lines 27-38
IdlePage ==
    /\ viewMode = "pilot"
    /\ weatherICAOs = <<>>
    /\ dispatcherStations = <<>>
    /\ selectedStation = NoStation
    /\ isLoading = FALSE
    /\ inFlight = <<>>
    /\ removedStations = {}

\* the stations the caches are asked for
CacheStations ==
    {"CYYT", "KJFK"}

\* src/pages/index.tsx, lines 758, 814: the keys of fetchWeatherData and
\* fetchPIREPs
metarKey(code) ==
    "metar-" \o code

pirepKey(code) ==
    "pirep-" \o code \o "-50"

\* src/pages/api/weather/[icao].ts, line 39
weatherKey(code) ==
    "weather-" \o code

ClientKeys ==
    {metarKey(code) : code \in CacheStations} \cup {pirepKey("KJFK")}

ServerKeys ==
    {weatherKey(code) : code \in CacheStations}

\* both caches are empty when their module is loaded: src/pages/index.tsx,
\* line 695, and src/pages/api/weather/[icao].ts, line 10
IdleCache ==
    /\ side = "browser"
    /\ clock = 0
    /\ cache = [k \in ClientKeys |-> <<>>]
    /\ serverCache = [k \in ServerKeys |-> <<>>]
    /\ requests = <<>>
    /\ answer = <<>>

\* a tile is about to render the text rawText under the minima minima
InitParser ==
    /\ pc = "ready"
    /\ rawText \in ReportTextValues
    /\ minima \in MinimaValues
    /\ lineResults = <<>>
    /\ html = ""
    /\ hasViolations = FALSE
    /\ IdleStatus
    /\ IdleMinima
    /\ IdleFetch
    /\ IdleMapping
    /\ IdlePage
    /\ IdleCache

HighlightWeatherText ==
    /\ pc = "ready"
    /\ \E r \in {highlightWeatherText(rawText, minima)} :
          /\ lineResults' = r.lines
          /\ html' = r.html
          /\ hasViolations' = r.hasViolations
    /\ pc' = "done"
    /\ UNCHANGED <<rawText, minima>>
    /\ UNCHANGED <<statusVars, minimaVars, fetchVars, mappingVars, pageVars, cacheVars>>

\* the same call, answered by the second definition of the module
HighlightWeatherText2 ==
    /\ pc = "ready"
    /\ \E r \in {highlightWeatherText2(rawText, minima)} :
          /\ lineResults' = r.lines
          /\ html' = r.html
          /\ hasViolations' = r.hasViolations
    /\ pc' = "done"
    /\ UNCHANGED <<rawText, minima>>
    /\ UNCHANGED <<statusVars, minimaVars, fetchVars, mappingVars, pageVars, cacheVars>>

NextParser ==
    \/ HighlightWeatherText
    \/ HighlightWeatherText2

SpecParser ==
    InitParser /\ [][NextParser]_vars

---------------------------------------------------------------------------
(* The dispatcher view calls fetchStationStatus for a station; the inputs  *)
(* are what the three fetches deliver and the clock.                       *)

MaxPireps == 1

MaxSigmets == 1

T0 ==
    14 * HourMs

\* the value `new Date()` reads at the start of the extractors
Clocks ==
    {T0, T0 + HourMs}

\* the milliseconds that pass until the Date.now() calls inside the map
ClockDrifts ==
    {0, 1}

MetarTexts ==
    {"", "KJFK 10SM BKN050", "KJFK 1/4SM FEW010", "KJFK 3/4SM BKN020",
     "KJFK 5SM OVC000", "KJFK 5SM BKN001", "KJFK 5SM VV001",
     "KJFK 1 1/2SM BKN050", "KJFK 180V240 1/4SM FEW010"}

WeatherDataValues ==
    {[metar |-> m, taf |-> "", error |-> NoError] : m \in MetarTexts}
    \cup {[metar |-> "", taf |-> "", error |-> FailedToFetch]}

\* the time of a report 12 hours before the first clock value
PirepTime ==
    TimeAt(T0 - 12 * HourMs)

PirepPayloads ==
    {[reportTime |-> PirepTime, obsTime |-> NoTime,
      turbulenceCondition |-> ConditionObject("SEVERE", ""),
      icingCondition |-> NoCondition],
     [reportTime |-> NoTime, obsTime |-> PirepTime,
      turbulenceCondition |-> NoCondition,
      icingCondition |-> ConditionString("Moderate rime")],
     [reportTime |-> NoTime, obsTime |-> NoTime,
      turbulenceCondition |-> ConditionObject("", "Light chop"),
      icingCondition |-> ConditionObject("", "")],
     [reportTime |-> NoTime, obsTime |-> NoTime,
      turbulenceCondition |-> NoCondition,
      icingCondition |-> ConditionObject("Heavy", "")],
     [reportTime |-> BadTime, obsTime |-> PirepTime,
      turbulenceCondition |-> ConditionObject("MOD", ""),
      icingCondition |-> NoCondition]}

SigmetPayloads ==
    {[validTimeFrom |-> TimeAt(T0 - HourMs), validTimeTo |-> TimeAt(T0),
      severity |-> "SEVERE", hazard |-> "TURB"],
     [validTimeFrom |-> TimeAt(T0 - HourMs), validTimeTo |-> TimeAt(T0),
      severity |-> "", hazard |-> "ICE"],
     [validTimeFrom |-> TimeAt(T0 + HourMs), validTimeTo |-> TimeAt(T0 + 2 * HourMs),
      severity |-> "Severe", hazard |-> "TURB"],
     [validTimeFrom |-> NoTime, validTimeTo |-> NoTime,
      severity |-> "", hazard |-> "ICE"],
     [validTimeFrom |-> BadTime, validTimeTo |-> BadTime,
      severity |-> "MODERATE", hazard |-> "TURB"]}

\* the sequences over S of length at most k
RECURSIVE SeqsUpTo(_, _)
SeqsUpTo(S, k) ==
    IF k = 0 THEN {<<>>}
    ELSE SeqsUpTo(S, k - 1)
         \cup {Append(q, x) : q \in SeqsUpTo(S, k - 1), x \in S}

PayloadsOf(S, k) ==
    {NoData} \cup {[isArray |-> TRUE, items |-> q] : q \in SeqsUpTo(S, k)}

PirepDataValues ==
    PayloadsOf(PirepPayloads, MaxPireps)

SigmetDataValues ==
    PayloadsOf(SigmetPayloads, MaxSigmets)

\* the three fetches of fetchStationStatus have delivered, the clock is read
InitStatus ==
    /\ pc = "ready"
    /\ now \in Clocks
    /\ \E drift \in ClockDrifts : dateNow = now + drift
    /\ weatherData \in WeatherDataValues
    /\ pirepData \in PirepDataValues
    /\ sigmetData \in SigmetDataValues
    /\ builtPireps = <<>>
    /\ builtSigmets = <<>>
    /\ stationStatus = <<>>
    /\ statusSteps = <<>>
    /\ IdleParser
    /\ IdleMinima
    /\ IdleFetch
    /\ IdleMapping
    /\ IdlePage
    /\ IdleCache

FetchStationStatus ==
    /\ pc = "ready"
    /\ builtPireps' = mapPIREPs(pirepData, now, dateNow)
    /\ builtSigmets' = mapSIGMETs(sigmetData, now, dateNow)
    /\ stationStatus' =
          <<fetchStationStatus(weatherData, pirepData, sigmetData, now, dateNow)>>
    /\ statusSteps' = operationalStatusSteps(weatherData, stationStatus'[1].pireps,
                                             stationStatus'[1].sigmets)
    /\ pc' = "done"
    /\ UNCHANGED <<now, dateNow, weatherData, pirepData, sigmetData>>
    /\ UNCHANGED <<parserVars, minimaVars, fetchVars, mappingVars, pageVars, cacheVars>>

NextStatus ==
    FetchStationStatus

SpecStatus ==
    InitStatus /\ [][NextStatus]_vars

---------------------------------------------------------------------------
(* The station status claims, checked under SpecStatus.                    *)

Returned ==
    pc = "done" /\ stationStatus # <<>>

Status ==
    stationStatus[1].operationalStatus

Rank(level) ==
    CASE level = "NORMAL" -> 0 [] level = "CAUTION" -> 1 [] level = "CRITICAL" -> 2

LevelOf(rank) ==
    CASE rank = 0 -> "NORMAL" [] rank = 1 -> "CAUTION" [] rank = 2 -> "CRITICAL"

Max2(a, b) ==
    IF a >= b THEN a ELSE b

\* the signals of the returned lists, as the classifier's contract names them
ActiveSevereSigmet ==
    \E k \in 1..Len(stationStatus[1].sigmets) :
        /\ stationStatus[1].sigmets[k].isActive
        /\ stationStatus[1].sigmets[k].severity = "SEVERE"

ActiveSigmet ==
    \E k \in 1..Len(stationStatus[1].sigmets) : stationStatus[1].sigmets[k].isActive

FreshPirepOf(level) ==
    \E k \in 1..Len(stationStatus[1].pireps) :
        /\ ~stationStatus[1].pireps[k].isExpired
        /\ \/ stationStatus[1].pireps[k].turbulence = level
           \/ stationStatus[1].pireps[k].icing = level

\* the conditions c show a visibility below vis miles or a ceiling below ceil
\* feet
MetarBelow(c, vis, ceil) ==
    \/ c.visibility.n * vis.d < vis.n * c.visibility.d
    \/ c.ceiling.n < ceil

ErrorLevel ==
    IF weatherData.error # NoError THEN 2 ELSE 0

HazardLevel ==
    IF ActiveSevereSigmet \/ FreshPirepOf("SEVERE") THEN 2
    ELSE IF ActiveSigmet \/ FreshPirepOf("MODERATE") THEN 1
    ELSE 0

\* the level the METAR text signals: 2 below 0.5 mi or 100 ft, 1 below 1 mi
\* or 200 ft, 0 otherwise and without a METAR text
MetarLevel ==
    IF weatherData.metar = "" THEN 0
    ELSE LET c == parseMetarConditions(weatherData.metar)
         IN  IF MetarBelow(c, Frac(1, 2), 100) THEN 2
             ELSE IF MetarBelow(c, Num(1), 200) THEN 1
             ELSE 0

\* C1: whenever the weather data of the station carries an error string, the
\* operational status is CRITICAL, whatever the PIREPs, SIGMETs and METAR are.
C1_ErrorIsCritical ==
    (Returned /\ weatherData.error # NoError) => Status = "CRITICAL"

C1_Witness ==
    /\ Returned
    /\ weatherData.error = FailedToFetch
    /\ stationStatus[1].pireps = <<>>
    /\ stationStatus[1].sigmets = <<>>
    /\ Status = "CRITICAL"

\* C2: without a METAR error, an active SEVERE SIGMET or a non-expired PIREP
\* of SEVERE turbulence or icing makes the status CRITICAL, whatever the METAR
\* text and the other reports are.
C2_SevereIsCritical ==
    (/\ Returned
     /\ weatherData.error = NoError
     /\ ActiveSevereSigmet \/ FreshPirepOf("SEVERE"))
    => Status = "CRITICAL"

C2_Witness ==
    /\ Returned
    /\ weatherData.error = NoError
    /\ weatherData.metar = "KJFK 10SM BKN050"
    /\ FreshPirepOf("SEVERE")
    /\ ~ActiveSevereSigmet
    /\ Status = "CRITICAL"

\* C3: without a METAR error and without a severe signal, an active SIGMET or
\* a non-expired MODERATE PIREP makes the status at least CAUTION, exactly
\* CAUTION under a METAR of visibility 10 mi and ceiling 5000 ft; with no
\* active SIGMET, no non-expired MODERATE or SEVERE PIREP and a METAR above the
\* thresholds the status is NORMAL.
C3_ModerateIsCaution ==
    (/\ Returned
     /\ weatherData.error = NoError
     /\ ~ActiveSevereSigmet
     /\ ~FreshPirepOf("SEVERE"))
    => /\ (ActiveSigmet \/ FreshPirepOf("MODERATE")) =>
            /\ Rank(Status) >= 1
            /\ (weatherData.metar = "KJFK 10SM BKN050" => Status = "CAUTION")
       /\ (/\ ~ActiveSigmet
           /\ ~FreshPirepOf("MODERATE")
           /\ MetarLevel = 0) => Status = "NORMAL"

\* scenario D: one active SIGMET of severity MODERATE, no PIREP, 10SM BKN050
C3_Witness ==
    /\ Returned
    /\ weatherData.error = NoError
    /\ weatherData.metar = "KJFK 10SM BKN050"
    /\ Len(stationStatus[1].sigmets) = 1
    /\ stationStatus[1].sigmets[1].isActive
    /\ stationStatus[1].sigmets[1].severity = "MODERATE"
    /\ stationStatus[1].pireps = <<>>
    /\ Status = "CAUTION"

C5_EscalateOnlyFold ==
    Returned =>
        /\ Rank(Status) = Max2(ErrorLevel, Max2(HazardLevel, MetarLevel))
        /\ \A i \in 1..Len(statusSteps) : \A j \in i..Len(statusSteps) :
               Rank(statusSteps[i]) <= Rank(statusSteps[j])
        /\ statusSteps[Len(statusSteps)] = Status

\* the hazard step reached CRITICAL and the METAR step signals only CAUTION
C5_Witness ==
    /\ Returned
    /\ weatherData.error = NoError
    /\ HazardLevel = 2
    /\ MetarLevel = 1
    /\ Status = "CRITICAL"

\* the status of the classifier on the lists pireps and sigmets
StatusOf(pireps, sigmets) ==
    LET steps == operationalStatusSteps(weatherData, pireps, sigmets)
    IN  steps[Len(steps)]

\* the SIGMET and PIREP records the extractors build from the payloads, the
\* expired PIREPs and the SIGMETs that are not active among them
AddedSigmets ==
    {buildSIGMET(x, c, c) : x \in SigmetPayloads, c \in Clocks}

AddedPireps ==
    {buildPIREP(x, c, c) : x \in PirepPayloads, c \in Clocks}

\* C6: adding one more PIREP or SIGMET record to the classifier's lists never
\* lowers the status; an active SEVERE SIGMET added to an input of status
\* CAUTION gives CAUTION or CRITICAL.
C6_Monotone ==
    Returned =>
        /\ \A g \in AddedSigmets :
              LET new == StatusOf(stationStatus[1].pireps,
                                  Append(stationStatus[1].sigmets, g))
              IN  /\ Rank(new) >= Rank(Status)
                  /\ (Status = "CAUTION" /\ g.isActive /\ g.severity = "SEVERE")
                        => new \in {"CAUTION", "CRITICAL"}
        /\ \A p \in AddedPireps :
              Rank(StatusOf(Append(stationStatus[1].pireps, p),
                            stationStatus[1].sigmets)) >= Rank(Status)

\* a CAUTION from an active MODERATE SIGMET, to which an active SEVERE SIGMET
\* can be added
C6_Witness ==
    /\ Returned
    /\ Status = "CAUTION"
    /\ ActiveSigmet
    /\ \E g \in AddedSigmets :
          /\ g.isActive
          /\ g.severity = "SEVERE"
          /\ StatusOf(stationStatus[1].pireps, Append(stationStatus[1].sigmets, g))
             = "CRITICAL"

\* C7: every PIREP the extractor builds has isExpired = (timestamp < now - 12h);
\* a PIREP 13 hours old is expired, and the expired PIREPs do not change the
\* status, whatever their turbulence and icing are: the classifier gives the
\* returned status when the expired PIREPs are handed to it with the others.
C7_PirepExpiry ==
    Returned =>
        /\ \A k \in 1..Len(builtPireps) :
              /\ builtPireps[k].isExpired =
                    (/\ builtPireps[k].timestamp.valid
                     /\ builtPireps[k].timestamp.ms < now - 12 * HourMs)
              /\ builtPireps[k].timestamp = DateOf(now - 13 * HourMs)
                    => builtPireps[k].isExpired
        /\ Status = StatusOf(stationStatus[1].pireps
                              \o SelectSeq(builtPireps, LAMBDA p : p.isExpired),
                              stationStatus[1].sigmets)

\* scenario E: the only PIREP is 13 hours old and of SEVERE turbulence, and
\* the status is NORMAL
C7_Witness ==
    /\ Returned
    /\ Len(builtPireps) = 1
    /\ builtPireps[1].timestamp = DateOf(now - 13 * HourMs)
    /\ builtPireps[1].isExpired
    /\ builtPireps[1].turbulence = "SEVERE"
    /\ weatherData.error = NoError
    /\ Status = "NORMAL"

\* C8: every SIGMET record fetchSIGMETs builds has isExpired = (validTo < now)
\* and isActive = (validFrom <= now <= validTo) for the clock value of the call;
\* none is both active and expired.
C8_SigmetFlags ==
    Returned =>
        \A k \in 1..Len(builtSigmets) :
            LET g == builtSigmets[k]
            IN  /\ g.isExpired = (g.validTo.valid /\ g.validTo.ms < now)
                /\ g.isActive = (/\ g.validFrom.valid /\ g.validTo.valid
                                 /\ g.validFrom.ms <= now /\ now <= g.validTo.ms)
                /\ ~(g.isActive /\ g.isExpired)

\* a future-valid record, neither active nor expired, next to an expired one
C8_Witness ==
    /\ Returned
    /\ \E k \in 1..Len(builtSigmets) :
          /\ ~builtSigmets[k].isActive
          /\ ~builtSigmets[k].isExpired
          /\ builtSigmets[k].validFrom.ms > now

---------------------------------------------------------------------------
(* The parser and comparator claims, checked under SpecParser.             *)

ScenarioA ==
    "KJFK 291951Z 18010KT 1/2SM BKN005"

ScenarioB ==
    "KJFK 291951Z 18010KT P6SM OVC020"

Highlighted ==
    pc = "done" /\ lineResults # <<>>

\* x >= y for a parsed value x, finite or the +infinity sentinel, and a
\* finite minimum y
AtLeast(x, y) ==
    x.d = 0 \/ x.n * y.d >= y.n * x.d

\* C9 (as the spec states it): for scenario A under the minima {500, 1} the
\* parser returns ceiling 500 and visMiles 0.5, the comparator returns false
\* and the highlighter flags the line.
C9_ScenarioA ==
    (/\ Highlighted
     /\ rawText = ScenarioA
     /\ minima = [ceiling |-> Num(500), vis |-> Num(1)])
    => /\ lineResults[1].conditions.ceiling = Num(500)
       /\ lineResults[1].conditions.visMiles.n * 2 = lineResults[1].conditions.visMiles.d
       /\ ~lineResults[1].meetsMinima
       /\ lineResults[1].flagged
       /\ hasViolations

\* C10: the comparator returns (isGreater or visMiles >= minima.vis) and
\* (ceiling >= minima.ceiling); a line whose visibility group has the P prefix
\* passes the visibility check whatever minima.vis is, and scenario B under the
\* minima {500, 3} meets the minima and is not flagged.
C10_Comparator ==
    Highlighted =>
        \A k \in 1..Len(lineResults) :
            LET r == lineResults[k]
            IN  ~r.blank =>
                  /\ r.meetsMinima =
                        (/\ r.conditions.isGreater
                            \/ AtLeast(r.conditions.visMiles, minima.vis)
                         /\ AtLeast(r.conditions.ceiling, minima.ceiling))
                  /\ includes(r.line, "P6SM") =>
                        /\ r.conditions.isGreater
                        /\ r.meetsMinima = AtLeast(r.conditions.ceiling, minima.ceiling)
                  /\ (r.line = ScenarioB
                      /\ minima = [ceiling |-> Num(500), vis |-> Num(3)]) =>
                        /\ r.conditions.ceiling = Num(2000)
                        /\ r.meetsMinima
                        /\ ~r.flagged

\* P6SM under a visibility minimum of 10 miles: the prefix alone decides
C10_Witness ==
    /\ Highlighted
    /\ rawText = ScenarioB
    /\ minima.vis = Num(10)
    /\ lineResults[1].conditions.visMiles = Num(6)
    /\ lineResults[1].conditions.isGreater
    /\ lineResults[1].meetsMinima
    /\ ~hasViolations

\* the call has returned (an empty text leaves no line result)
Rendered ==
    pc = "done"

\* the wrapper of a line result carries the violation class
RedWrapper(r) ==
    LitAt(r.wrapper, 1, "<div class=\"text-red-400 font-bold\">")

\* a cloud group BKN, OVC or VV with three digits stands in line at i
CloudGroupStartsAt(line, i) ==
    \E code \in {"BKN", "OVC", "VV"} :
        /\ LitAt(line, i, code)
        /\ \A d \in 0..2 : IsDigit(CharAt(line, i + Len(code) + d))

\* 100 x the three digits of the cloud group that stands in line at i
CloudGroupFeet(line, i) ==
    LET at == IF LitAt(line, i, "VV") THEN i + 2 ELSE i + 3
    IN  100 * (100 * DigitValue(CharAt(line, at))
               + 10 * DigitValue(CharAt(line, at + 1))
               + DigitValue(CharAt(line, at + 2)))

\* C11: the ceiling of a line is 100 x the three digits of its first
\* BKN/OVC/VV group, whatever the later groups are, and the +infinity
\* sentinel when the line has no such group.
C11_FirstCloudGroup ==
    Rendered =>
        \A k \in 1..Len(lineResults) :
            LET r == lineResults[k]
                groups == {i \in 1..Len(r.line) : CloudGroupStartsAt(r.line, i)}
            IN  ~r.blank =>
                  /\ groups = {} => r.conditions.ceiling = Infinity
                  /\ \A i \in groups :
                        (\A j \in groups : i <= j)
                        => r.conditions.ceiling = Num(CloudGroupFeet(r.line, i))

\* BKN020 before the lower OVC005: the ceiling is 2000
C11_Witness ==
    /\ Rendered
    /\ rawText = "BKN020 OVC005"
    /\ lineResults[1].conditions.ceiling = Num(2000)

\* the visibility a report line states, by its visibility group
ReportedVisibility(line) ==
    IF includes(line, "P6SM") THEN [visMiles |-> Num(6), isGreater |-> TRUE]
    ELSE IF includes(line, "1 1/2SM") THEN [visMiles |-> Frac(3, 2), isGreater |-> FALSE]
    ELSE IF includes(line, "1/2SM") THEN [visMiles |-> Frac(1, 2), isGreater |-> FALSE]
    ELSE IF includes(line, "3SM") THEN [visMiles |-> Num(3), isGreater |-> FALSE]
    ELSE IF includes(line, "0SM") THEN [visMiles |-> Num(0), isGreater |-> FALSE]
    ELSE [visMiles |-> Infinity, isGreater |-> FALSE]

\* C12 (as the spec states it): a P prefix sets isGreater and visMiles is the
\* number after it; without the prefix isGreater is false and visMiles is the
\* value the visibility group reports; without a group visMiles is +infinity.
C12_Visibility ==
    Rendered =>
        \A k \in 1..Len(lineResults) :
            LET r == lineResults[k]
            IN  ~r.blank =>
                  /\ r.conditions.isGreater = ReportedVisibility(r.line).isGreater
                  /\ NumEq(r.conditions.visMiles, ReportedVisibility(r.line).visMiles)

\* the line has no cloud group with three digits and no digit before SM
NoGroups(line) ==
    /\ \A i \in 1..Len(line) : ~CloudGroupStartsAt(line, i)
    /\ \A i \in 1..Len(line) : ~(IsDigit(CharAt(line, i)) /\ LitAt(line, i + 1, "SM"))

\* C13: a line without a BKN/OVC/VV group of three digits and without an SM
\* visibility token parses to {+inf, +inf, false}, meets every minima and is
\* never flagged.
C13_NoGroupsNoViolation ==
    Rendered =>
        \A k \in 1..Len(lineResults) :
            LET r == lineResults[k]
            IN  (~r.blank /\ NoGroups(r.line)) =>
                  /\ r.conditions =
                        [ceiling |-> Infinity, visMiles |-> Infinity, isGreater |-> FALSE]
                  /\ r.meetsMinima
                  /\ ~RedWrapper(r)

\* the remark line "RMK SMOKE VV BKN12" under a visibility minimum of 10
C13_Witness ==
    /\ Rendered
    /\ Len(lineResults) = 4
    /\ lineResults[4].line = "  RMK SMOKE VV BKN12"
    /\ minima = [ceiling |-> Num(800), vis |-> Num(10)]
    /\ IsInfinity(lineResults[4].conditions.ceiling)
    /\ lineResults[4].wrapper = "<div>RMK SMOKE VV BKN12</div>"

\* C14: under minima with ceiling <= 0 and vis <= 0 every line of every text
\* meets the minima, whatever was parsed from it, and the text has no
\* violation.
C14_NoMinimaNoViolation ==
    (/\ Rendered
     /\ AtLeast(Num(0), minima.ceiling)
     /\ AtLeast(Num(0), minima.vis))
    => /\ \A k \in 1..Len(lineResults) :
             ~lineResults[k].blank => lineResults[k].meetsMinima
       /\ ~hasViolations

\* visibility 0 and ceiling 0 under the minima {0, 0}
C14_Witness ==
    /\ Rendered
    /\ minima = [ceiling |-> Num(0), vis |-> Num(0)]
    /\ Len(lineResults) = 2
    /\ lineResults[1].conditions =
          [ceiling |-> Num(0), visMiles |-> Num(0), isGreater |-> FALSE]
    /\ lineResults[1].meetsMinima
    /\ ~hasViolations

\* C15 (as the spec states it): a text that is empty or white space only
\* renders to the empty html without a violation, whatever the minima are.
C15_EmptyText ==
    (Rendered /\ trim(rawText) = "")
    => /\ html = ""
       /\ ~hasViolations

\* the comparison of a line result, recomputed from its parsed conditions
Meets(r) ==
    /\ r.conditions.isGreater \/ AtLeast(r.conditions.visMiles, minima.vis)
    /\ AtLeast(r.conditions.ceiling, minima.ceiling)

\* C16: a line that is not blank is flagged as a violation if and only if
\* it fails the minima and at least one of ceiling and visMiles was parsed;
\* hasViolations is true if and only if some line of the text is flagged.
C16_FlaggedIff ==
    Rendered =>
        /\ \A k \in 1..Len(lineResults) :
              LET r == lineResults[k]
              IN  ~r.blank =>
                    (RedWrapper(r) <=>
                        /\ ~Meets(r)
                        /\ \/ ~IsInfinity(r.conditions.ceiling)
                           \/ ~IsInfinity(r.conditions.visMiles))
        /\ hasViolations <=>
              \E k \in 1..Len(lineResults) : RedWrapper(lineResults[k])

\* 3SM alone under a visibility minimum of 10: no ceiling parsed, flagged
C16_Witness ==
    /\ Rendered
    /\ rawText = "3SM "
    /\ minima.vis = Num(10)
    /\ IsInfinity(lineResults[1].conditions.ceiling)
    /\ RedWrapper(lineResults[1])
    /\ hasViolations

\* the two wrappers that hold a text verbatim
VerbatimWrappers(text) ==
    {"<div>" \o text \o "</div>",
     "<div class=\"text-red-400 font-bold\">" \o text \o "</div>"}

\* C17 (as the spec states it): the html is one wrapper per line of the
\* text, in the order of the lines, and each wrapper holds its line as it
\* stands in the text, leading and trailing white space included (a blank
\* line gives an empty wrapper).  The text that is white space only is the
\* case of C15 and is left out here.
C17_Verbatim ==
    (Rendered /\ trim(rawText) # "") =>
        /\ Len(lineResults) = Len(split(rawText))
        /\ \A k \in 1..Len(lineResults) :
              lineResults[k].wrapper \in VerbatimWrappers(split(rawText)[k])
        /\ html = join(wrappers(lineResults))

---------------------------------------------------------------------------
(* The minima of the pilot view: src/components/MinimaControls.tsx,        *)
(* src/components/WeatherTile.tsx, lines 62-83, and src/pages/index.tsx,   *)
(* lines 278-299 and 394.  A number field hands over the text typed into   *)
(* it; the attribute min="0" of the fields restricts the spinner and the   *)
(* form validation, not the text.                                          *)

\* what a user leaves in a number field: nothing, a negative number, a
\* fraction
InputTexts ==
    {"", "-100", "1.5"}

\* 10^k
RECURSIVE Pow10(_)
Pow10(k) ==
    IF k = 0 THEN 1 ELSE 10 * Pow10(k - 1)

\* parseFloat(s): white space, a sign, digits and a fraction; NaN when no
\* digit is found
parseFloat(s) ==
    LET number(t, sign, intEnd, fracEnd) ==
            IF intEnd = 0 /\ fracEnd <= intEnd + 1 THEN NaN
            ELSE [n |-> sign * (DigitsValue(SubSeq(t, 1, intEnd))
                                  * Pow10(fracEnd - intEnd - 1)
                                + DigitsValue(SubSeq(t, intEnd + 2, fracEnd))),
                  d |-> Pow10(fracEnd - intEnd - 1)]
        fraction(t, sign, intEnd) ==
            number(t, sign, intEnd,
                   IF CharAt(t, intEnd + 1) = "."
                   THEN DigitRunEnd(t, intEnd + 2) ELSE intEnd + 1)
        unsigned(t, sign) ==
            fraction(t, sign, DigitRunEnd(t, 1))
        signed(t) ==
            IF CharAt(t, 1) = "-" THEN unsigned(SubSeq(t, 2, Len(t)), 0 - 1)
            ELSE IF CharAt(t, 1) = "+" THEN unsigned(SubSeq(t, 2, Len(t)), 1)
            ELSE unsigned(t, 1)
    IN  signed(trimStart(s))

\* x || 0 of a number x: 0 for NaN and for 0, x otherwise
orZero(x) ==
    IF IsNaN(x) \/ (x.n = 0 /\ x.d # 0) THEN Num(0) ELSE x

\* MinimaControls.tsx, line 30: onChange of the ceiling field
SetCeiling ==
    /\ pc = "page"
    /\ \E t \in InputTexts : ceilingInput' = t
    /\ UNCHANGED <<pc, visInput, globalMinima, individualMinima>>
    /\ UNCHANGED <<parserVars, statusVars, fetchVars, mappingVars, pageVars, cacheVars>>

\* MinimaControls.tsx, line 41: onChange of the visibility field
SetVis ==
    /\ pc = "page"
    /\ \E t \in InputTexts : visInput' = t
    /\ UNCHANGED <<pc, ceilingInput, globalMinima, individualMinima>>
    /\ UNCHANGED <<parserVars, statusVars, fetchVars, mappingVars, pageVars, cacheVars>>

\* MinimaControls.tsx, lines 13-19, with updateGlobalMinima of the page
handleApply ==
    /\ pc = "page"
    /\ globalMinima' = [ceiling |-> orZero(parseFloat(ceilingInput)),
                        vis     |-> orZero(parseFloat(visInput))]
    /\ individualMinima' = [i \in TileICAOs |-> <<>>]
    /\ UNCHANGED <<pc, ceilingInput, visInput>>
    /\ UNCHANGED <<parserVars, statusVars, fetchVars, mappingVars, pageVars, cacheVars>>

\* minima={individualMinima[icao] || globalMinima}
tileMinima(tile) ==
    IF individualMinima[tile] # <<>> THEN individualMinima[tile][1]
    ELSE globalMinima

\* WeatherTile.tsx, lines 68 and 80, with updateIndividualMinima of the page
updateIndividualMinima ==
    /\ pc = "page"
    /\ \E tile \in TileICAOs, field \in {"ceiling", "vis"}, t \in InputTexts :
          individualMinima' =
              [individualMinima EXCEPT
                  ![tile] = <<[tileMinima(tile) EXCEPT
                                  ![field] = orZero(parseFloat(t))]>>]
    /\ UNCHANGED <<pc, ceilingInput, visInput, globalMinima>>
    /\ UNCHANGED <<parserVars, statusVars, fetchVars, mappingVars, pageVars, cacheVars>>

\* the reset button of a tile that has minima of its own
resetIndividualMinima ==
    /\ pc = "page"
    /\ \E tile \in TileICAOs :
          /\ individualMinima[tile] # <<>>
          /\ individualMinima' = [individualMinima EXCEPT ![tile] = <<>>]
    /\ UNCHANGED <<pc, ceilingInput, visInput, globalMinima>>
    /\ UNCHANGED <<parserVars, statusVars, fetchVars, mappingVars, pageVars, cacheVars>>

InitMinima ==
    /\ pc = "page"
    /\ IdleMinima
    /\ IdleParser
    /\ IdleStatus
    /\ IdleFetch
    /\ IdleMapping
    /\ IdlePage
    /\ IdleCache

NextMinima ==
    \/ SetCeiling
    \/ SetVis
    \/ handleApply
    \/ updateIndividualMinima
    \/ resetIndividualMinima

SpecMinima ==
    InitMinima /\ [][NextMinima]_vars

\* a number that is not NaN and not below 0
NonNegative(x) ==
    ~IsNaN(x) /\ (x.d = 0 \/ x.n >= 0)

\* C18 (as the spec states it): whatever was typed into the fields,
\* globalMinima and every entry of individualMinima, and so the minima of
\* every tile, have a ceiling >= 0 and a vis >= 0.
C18_MinimaNonNegative ==
    /\ NonNegative(globalMinima.ceiling)
    /\ NonNegative(globalMinima.vis)
    /\ \A tile \in TileICAOs :
          /\ NonNegative(tileMinima(tile).ceiling)
          /\ NonNegative(tileMinima(tile).vis)

---------------------------------------------------------------------------
(* src/pages/index.tsx, lines 748-808 and 909-975: fetchWeatherData and    *)
(* fetchStationStatus called with a station code.  fetchWithCache (lines   *)
(* 705-746) catches every failure of the request and returns null, the     *)
(* parsed JSON, or the response text when it is no JSON.                   *)

\* /^[A-Z0-9]{4}$/.test(icao), with the !icao before it
testICAO(code) ==
    /\ code # ""
    /\ Len(code) = 4
    /\ \A i \in 1..4 :
          IsDigit(CharAt(code, i)) \/ includes(UPPER, CharAt(code, i))

IcaoValues ==
    {"KJFK", "CYYT", "K1AB", "", "kjfk", "KJF", "KJFKX", "KJ-K"}

\* an element of a JSON array: null, or an object with the report under
\* rawOb / rawTAF (first) and under raw
NullItem ==
    [kind |-> "null", first |-> "", raw |-> ""]

ReportItem(first, raw) ==
    [kind |-> "object", first |-> first, raw |-> raw]

ResponseValues ==
    {Null,
     [kind |-> "array", items |-> <<>>, text |-> ""],
     [kind |-> "array", items |-> <<ReportItem("KJFK 291951Z 18010KT 10SM CLR", "")>>,
      text |-> ""],
     [kind |-> "array", items |-> <<ReportItem("", "KJFK 291951Z 1/4SM OVC001")>>,
      text |-> ""],
     [kind |-> "array", items |-> <<NullItem>>, text |-> ""],
     [kind |-> "string", items |-> <<>>, text |-> "KJFK 291951Z 18010KT 3SM BKN005"]}

\* metarData[0].rawOb of a null element throws a TypeError
throwsTypeError(data) ==
    data.kind = "array" /\ Len(data.items) > 0 /\ data.items[1].kind = "null"

\* lines 784-800: the report text taken from a response
reportOf(data) ==
    IF data.kind = "array" /\ Len(data.items) > 0
    THEN (IF data.items[1].first # "" THEN data.items[1].first
          ELSE data.items[1].raw)
    ELSE IF data.kind = "string" THEN data.text
    ELSE ""

\* how a call ended: with an Error thrown to the caller, or with a value
Thrown(call, message) ==
    [call |-> call, thrown |-> message, value |-> <<>>]

ReturnedValue(call, value) ==
    [call |-> call, thrown |-> "", value |-> <<value>>]

fetchWeatherData(code, metarResponse, tafResponse) ==
    IF ~testICAO(code)
    THEN Thrown("fetchWeatherData", "Invalid ICAO code")
    ELSE IF throwsTypeError(metarResponse) \/ throwsTypeError(tafResponse)
    THEN ReturnedValue("fetchWeatherData",
                       [metar |-> "", taf |-> "", error |-> FailedToFetch])
    ELSE ReturnedValue("fetchWeatherData",
                       [metar |-> reportOf(metarResponse),
                        taf   |-> reportOf(tafResponse),
                        error |-> NoError])

\* lines 909-975 as a whole: the rejection of fetchWeatherData rejects the
\* Promise.all and lands in the catch block, which returns a record.  The
\* PIREP and SIGMET requests of this call deliver nothing.
fetchStationStatusOf(code, metarResponse, tafResponse) ==
    LET settle(w) ==
            IF w.thrown # ""
            THEN ReturnedValue("fetchStationStatus",
                     [metar             |-> [metar |-> "", taf |-> "",
                                             error |-> FailedToFetch],
                      pireps            |-> <<>>,
                      sigmets           |-> <<>>,
                      operationalStatus |-> "CRITICAL"])
            ELSE ReturnedValue("fetchStationStatus",
                     fetchStationStatus(w.value[1], NoData, NoData, 0, 0))
    IN  settle(fetchWeatherData(code, metarResponse, tafResponse))

InitFetch ==
    /\ pc = "ready"
    /\ icao \in IcaoValues
    /\ metarData \in ResponseValues
    /\ tafData \in ResponseValues
    /\ callResult = <<>>
    /\ IdleParser
    /\ IdleStatus
    /\ IdleMinima
    /\ IdleMapping
    /\ IdlePage
    /\ IdleCache

\* the pilot view loads a tile: src/pages/index.tsx, line 154
FetchWeatherData ==
    /\ pc = "ready"
    /\ callResult' = <<fetchWeatherData(icao, metarData, tafData)>>
    /\ pc' = "done"
    /\ UNCHANGED <<icao, metarData, tafData>>
    /\ UNCHANGED <<parserVars, statusVars, minimaVars, mappingVars, pageVars, cacheVars>>

\* the dispatcher view loads a station: src/pages/index.tsx, lines 116, 260
FetchStationStatusOf ==
    /\ pc = "ready"
    /\ callResult' = <<fetchStationStatusOf(icao, metarData, tafData)>>
    /\ pc' = "done"
    /\ UNCHANGED <<icao, metarData, tafData>>
    /\ UNCHANGED <<parserVars, statusVars, minimaVars, mappingVars, pageVars, cacheVars>>

NextFetch ==
    \/ FetchWeatherData
    \/ FetchStationStatusOf

SpecFetch ==
    InitFetch /\ [][NextFetch]_vars

\* C19 (as the spec states it): a call of fetchWeatherData or of
\* fetchStationStatus ends with the error 'Invalid ICAO code' thrown to the
\* caller exactly when the station code does not match ^[A-Z0-9]{4}$; every
\* other call returns a value.
C19_InvalidIcaoThrown ==
    callResult # <<>> =>
        /\ ~testICAO(icao) =>
              /\ callResult[1].thrown = "Invalid ICAO code"
              /\ callResult[1].value = <<>>
        /\ testICAO(icao) =>
              /\ callResult[1].thrown = ""
              /\ callResult[1].value # <<>>

---------------------------------------------------------------------------
(* The timestamp defaults of the extractors, checked under SpecStatus.     *)

\* the time field a PIREP payload item is dated by:
\* pirep.reportTime || pirep.obsTime
PirepTimeField(pirep) ==
    IF pirep.reportTime.kind # "missing" THEN pirep.reportTime ELSE pirep.obsTime

\* C20 (as the spec states it): a PIREP whose time field is missing or is
\* no date is dated now, is not expired and is returned; a SIGMET whose
\* validity fields are missing or are no dates is valid from now to now + 6
\* hours; the call returns for every payload.
C20_TimestampDefaults ==
    Returned =>
        /\ \A k \in 1..Len(builtPireps) :
              PirepTimeField(pirepData.items[k]).kind # "time" =>
                  /\ builtPireps[k].timestamp = DateOf(dateNow)
                  /\ ~builtPireps[k].isExpired
                  /\ \E j \in 1..Len(stationStatus[1].pireps) :
                        stationStatus[1].pireps[j] = builtPireps[k]
        /\ \A k \in 1..Len(builtSigmets) :
              /\ sigmetData.items[k].validTimeFrom.kind # "time" =>
                    builtSigmets[k].validFrom = DateOf(dateNow)
              /\ sigmetData.items[k].validTimeTo.kind # "time" =>
                    builtSigmets[k].validTo = DateOf(dateNow + 6 * HourMs)

---------------------------------------------------------------------------
(* The mappers of the extractors by themselves.  src/pages/index.tsx,      *)
(* lines 996-1044, holds the mappers modelled above; src/lib/weatherApi.ts *)
(* holds them once more with another reading of the condition (lines       *)
(* 463-511) and in an older form (lines 820-861).                          *)

\* src/lib/weatherApi.ts, line 466:
\* (condition.intensity || condition.type || '').toLowerCase()
conditionIntensityOrType(c) ==
    toLowerCase(IF c.kind # "object" THEN ""
                ELSE IF c.intensity # "" THEN c.intensity
                ELSE c.type)

\* src/lib/weatherApi.ts, line 822: turbulence.intensity?.toLowerCase() || ''
intensityOnly(c) ==
    toLowerCase(IF c.kind # "object" THEN "" ELSE c.intensity)

\* src/lib/weatherApi.ts, lines 463-473
mapTurbulenceIntensityOrType(c) ==
    IF conditionFalsy(c) THEN "NONE"
    ELSE IF includes(conditionIntensityOrType(c), "severe")
            \/ includes(conditionIntensityOrType(c), "extreme") THEN "SEVERE"
    ELSE IF includes(conditionIntensityOrType(c), "moderate") THEN "MODERATE"
    ELSE IF includes(conditionIntensityOrType(c), "light")
            \/ includes(conditionIntensityOrType(c), "weak") THEN "LIGHT"
    ELSE "NONE"

\* src/lib/weatherApi.ts, lines 475-486
mapIcingIntensityOrType(c) ==
    IF conditionFalsy(c) THEN "NONE"
    ELSE IF includes(conditionIntensityOrType(c), "severe")
            \/ includes(conditionIntensityOrType(c), "heavy") THEN "SEVERE"
    ELSE IF includes(conditionIntensityOrType(c), "moderate") THEN "MODERATE"
    ELSE IF includes(conditionIntensityOrType(c), "light") THEN "LIGHT"
    ELSE IF includes(conditionIntensityOrType(c), "trace") THEN "TRACE"
    ELSE "NONE"

\* src/lib/weatherApi.ts, lines 820-828
mapTurbulence(turbulence) ==
    IF conditionFalsy(turbulence) THEN "NONE"
    ELSE IF includes(intensityOnly(turbulence), "severe")
            \/ includes(intensityOnly(turbulence), "extreme") THEN "SEVERE"
    ELSE IF includes(intensityOnly(turbulence), "moderate") THEN "MODERATE"
    ELSE IF includes(intensityOnly(turbulence), "light") THEN "LIGHT"
    ELSE "NONE"

\* src/lib/weatherApi.ts, lines 830-839
mapIcing(icing) ==
    IF conditionFalsy(icing) THEN "NONE"
    ELSE IF includes(intensityOnly(icing), "severe")
            \/ includes(intensityOnly(icing), "heavy") THEN "SEVERE"
    ELSE IF includes(intensityOnly(icing), "moderate") THEN "MODERATE"
    ELSE IF includes(intensityOnly(icing), "light") THEN "LIGHT"
    ELSE IF includes(intensityOnly(icing), "trace") THEN "TRACE"
    ELSE "NONE"

\* src/lib/weatherApi.ts, lines 854-861
mapSeverity(severity) ==
    IF severity = "" THEN "MODERATE"
    ELSE IF includes(toLowerCase(severity), "severe")
            \/ includes(toLowerCase(severity), "extreme") THEN "SEVERE"
    ELSE IF includes(toLowerCase(severity), "light")
            \/ includes(toLowerCase(severity), "weak") THEN "LIGHT"
    ELSE "MODERATE"

\* sigmet.severity || sigmet.hazard
severityOrHazard(g) ==
    IF g.severity # "" THEN g.severity ELSE g.hazard

IntensityTexts ==
    {"Severe", "EXTREME", "Heavy", "Moderate", "LIGHT", "weak", "Trace",
     "light to severe", "MOD-SEV", "smooth"}

ConditionValues ==
    {NoCondition, ConditionString(""), ConditionObject("", "")}
    \cup {ConditionObject(t, "") : t \in IntensityTexts}
    \cup {ConditionObject("", t) : t \in IntensityTexts}
    \cup {ConditionString(t) : t \in IntensityTexts}

SeverityTexts ==
    {"", "Severe", "EXTREME", "strong", "Light", "weak", "mild", "Moderate"}

HazardTexts ==
    {"", "ICE", "Severe turbulence", "light icing"}

SigmetFields ==
    {[severity |-> v, hazard |-> h] : v \in SeverityTexts, h \in HazardTexts}

\* the level a mapper returned
Mapped(by, level) ==
    <<[by |-> by, level |-> level]>>

InitMapping ==
    /\ pc = "ready"
    /\ conditionArg \in ConditionValues
    /\ sigmetArg \in SigmetFields
    /\ mapped = <<>>
    /\ IdleParser
    /\ IdleStatus
    /\ IdleMinima
    /\ IdleFetch
    /\ IdlePage
    /\ IdleCache

\* one call of a mapper: the operator level is what the mapper by returns
MapperCall(by, level) ==
    /\ pc = "ready"
    /\ mapped' = Mapped(by, level)
    /\ pc' = "done"
    /\ UNCHANGED <<conditionArg, sigmetArg>>
    /\ UNCHANGED <<parserVars, statusVars, minimaVars, fetchVars, pageVars, cacheVars>>

\* src/pages/index.tsx, lines 838-839 and 889
MapTurbulenceIntensity ==
    MapperCall("mapTurbulenceIntensity", mapTurbulenceIntensity(conditionArg))

MapIcingIntensity ==
    MapperCall("mapIcingIntensity", mapIcingIntensity(conditionArg))

MapSeverityLevel ==
    MapperCall("mapSeverityLevel", mapSeverityLevel(severityOrHazard(sigmetArg)))

\* src/lib/weatherApi.ts, lines 330-331
MapTurbulenceIntensityOrType ==
    MapperCall("mapTurbulenceIntensityOrType", mapTurbulenceIntensityOrType(conditionArg))

MapIcingIntensityOrType ==
    MapperCall("mapIcingIntensityOrType", mapIcingIntensityOrType(conditionArg))

\* src/lib/weatherApi.ts, lines 676-677 and 722
MapTurbulence ==
    MapperCall("mapTurbulence", mapTurbulence(conditionArg))

MapIcing ==
    MapperCall("mapIcing", mapIcing(conditionArg))

MapSeverity ==
    MapperCall("mapSeverity", mapSeverity(sigmetArg.severity))

NextMapping ==
    \/ MapTurbulenceIntensity
    \/ MapIcingIntensity
    \/ MapSeverityLevel
    \/ MapTurbulenceIntensityOrType
    \/ MapIcingIntensityOrType
    \/ MapTurbulence
    \/ MapIcing
    \/ MapSeverity

SpecMapping ==
    InitMapping /\ [][NextMapping]_vars

TurbulenceMappers ==
    {"mapTurbulenceIntensity", "mapTurbulenceIntensityOrType", "mapTurbulence"}

IcingMappers ==
    {"mapIcingIntensity", "mapIcingIntensityOrType", "mapIcing"}

\* the level of the first entry <<keyword, level>> of table whose keyword
\* stands in text, otherwise the level default
RECURSIVE FirstKeyword(_, _, _)
FirstKeyword(text, table, default) ==
    IF Len(table) = 0 THEN default
    ELSE IF includes(text, Head(table)[1]) THEN Head(table)[2]
    ELSE FirstKeyword(text, Tail(table), default)

\* a mapper of PIREP conditions has run on an absent condition or on one
\* with an intensity text
IntensityMapped ==
    /\ mapped # <<>>
    /\ mapped[1].by \in TurbulenceMappers \cup IcingMappers
    /\ \/ conditionArg = NoCondition
       \/ conditionArg.kind = "object" /\ conditionArg.intensity # ""

\* C22 (as the spec states it): the intensity text, lower-cased, is searched
\* for severe, moderate, light and (icing only) trace in this order, the
\* first one found gives the level, and an absent condition or a text with
\* none of these four words gives NONE.
C22_IntensityKeywords ==
    IntensityMapped =>
        mapped[1].level =
            IF conditionArg = NoCondition THEN "NONE"
            ELSE FirstKeyword(toLowerCase(conditionArg.intensity),
                     <<<<"severe", "SEVERE">>, <<"moderate", "MODERATE">>,
                       <<"light", "LIGHT">>>>
                     \o (IF mapped[1].by \in IcingMappers
                         THEN <<<<"trace", "TRACE">>>> ELSE <<>>),
                     "NONE")

\* the keywords of a mapper, in the order of their levels
IntensityKeywords(by) ==
    IF by \in IcingMappers
    THEN <<<<"severe", "SEVERE">>, <<"heavy", "SEVERE">>,
           <<"moderate", "MODERATE">>, <<"light", "LIGHT">>,
           <<"trace", "TRACE">>>>
    ELSE <<<<"severe", "SEVERE">>, <<"extreme", "SEVERE">>,
           <<"moderate", "MODERATE">>, <<"light", "LIGHT">>>>
         \o (IF by = "mapTurbulence" THEN <<>> ELSE <<<<"weak", "LIGHT">>>>)

\* C22 (amended): the intensity text, lower-cased, is searched in the order
\* SEVERE (severe or extreme for turbulence, severe or heavy for icing),
\* MODERATE (moderate), LIGHT (light, and weak for turbulence except in the
\* older mapTurbulence), TRACE (trace, icing only); the first level found
\* wins, and an absent condition or a text with none of these words gives
\* NONE.
C22_IntensityMapping ==
    IntensityMapped =>
        mapped[1].level =
            IF conditionArg = NoCondition THEN "NONE"
            ELSE FirstKeyword(toLowerCase(conditionArg.intensity),
                              IntensityKeywords(mapped[1].by), "NONE")

\* "light to severe" is SEVERE
C22_Witness ==
    /\ mapped # <<>>
    /\ mapped[1].by = "mapTurbulenceIntensity"
    /\ conditionArg = ConditionObject("light to severe", "")
    /\ mapped[1].level = "SEVERE"

\* a mapper of SIGMET severities has run
SeverityMapped ==
    mapped # <<>> /\ mapped[1].by \in {"mapSeverityLevel", "mapSeverity"}

\* C23 (as the spec states it): the severity text maps to SEVERE when it
\* contains severe, extreme or strong, else to LIGHT when it contains light,
\* weak or mild, else to MODERATE; a payload without a severity field is
\* MODERATE whatever its hazard says.
C23_SeverityOfPayload ==
    SeverityMapped =>
        mapped[1].level =
            FirstKeyword(toLowerCase(sigmetArg.severity),
                <<<<"severe", "SEVERE">>, <<"extreme", "SEVERE">>,
                  <<"strong", "SEVERE">>, <<"light", "LIGHT">>,
                  <<"weak", "LIGHT">>, <<"mild", "LIGHT">>>>,
                "MODERATE")

\* C23 (amended): fetchSIGMETs hands mapSeverityLevel the severity of the
\* payload, or its hazard when it has no severity; that text maps to SEVERE
\* when it contains severe, extreme or strong, else to LIGHT when it contains
\* light, weak or mild, else (or when it is absent) to MODERATE.  The older
\* mapSeverity is handed the severity alone and knows severe, extreme, light
\* and weak.
C23_SeverityMapping ==
    SeverityMapped =>
        mapped[1].level =
            IF mapped[1].by = "mapSeverityLevel"
            THEN FirstKeyword(
                    toLowerCase(IF sigmetArg.severity = "" THEN sigmetArg.hazard
                                ELSE sigmetArg.severity),
                    <<<<"severe", "SEVERE">>, <<"extreme", "SEVERE">>,
                      <<"strong", "SEVERE">>, <<"light", "LIGHT">>,
                      <<"weak", "LIGHT">>, <<"mild", "LIGHT">>>>,
                    "MODERATE")
            ELSE FirstKeyword(toLowerCase(sigmetArg.severity),
                    <<<<"severe", "SEVERE">>, <<"extreme", "SEVERE">>,
                      <<"light", "LIGHT">>, <<"weak", "LIGHT">>>>,
                    "MODERATE")

\* no severity and the hazard "Severe turbulence": SEVERE
C23_Witness ==
    /\ mapped # <<>>
    /\ mapped[1].by = "mapSeverityLevel"
    /\ sigmetArg = [severity |-> "", hazard |-> "Severe turbulence"]
    /\ mapped[1].level = "SEVERE"

---------------------------------------------------------------------------
(* The clock of the extractors, checked under SpecStatus.                  *)

\* C24 (as the spec states it): a call reads the clock once, so a timestamp
\* that is defaulted because its field is missing is the instant now the
\* flags are computed against: the PIREP is dated now, the SIGMET is valid
\* from now to now + 6 hours and, its validFrom being now, is active.
C24_ClockReadOnce ==
    Returned =>
        /\ \A k \in 1..Len(builtPireps) :
              PirepTimeField(pirepData.items[k]).kind = "missing" =>
                  builtPireps[k].timestamp = DateOf(now)
        /\ \A k \in 1..Len(builtSigmets) :
              /\ sigmetData.items[k].validTimeFrom.kind = "missing" =>
                    builtSigmets[k].validFrom = DateOf(now)
              /\ sigmetData.items[k].validTimeTo.kind = "missing" =>
                    builtSigmets[k].validTo = DateOf(now + 6 * HourMs)
              /\ (/\ sigmetData.items[k].validTimeFrom.kind = "missing"
                  /\ sigmetData.items[k].validTimeTo.kind = "missing") =>
                    builtSigmets[k].isActive

---------------------------------------------------------------------------
(* The METAR extraction of the classifier, checked under SpecStatus.       *)

\* the classifier has looked at a METAR text
MetarRead ==
    Returned /\ weatherData.error = NoError /\ weatherData.metar # ""

\* C25 (as the spec states it): the ceiling and the visibility the
\* classifier takes from the METAR are those parseWeatherLine finds in the
\* same text, whenever parseWeatherLine finds a cloud group (BKN, OVC or VV)
\* or a visibility group.
C25_SameExtraction ==
    MetarRead =>
        LET line == parseWeatherLine(weatherData.metar)
            c    == parseMetarConditions(weatherData.metar)
        IN  /\ ~IsInfinity(line.ceiling) => NumEq(c.ceiling, line.ceiling)
            /\ ~IsInfinity(line.visMiles) => NumEq(c.visibility, line.visMiles)

\* the visibility the SM group of a METAR text of the model reports
ReportedMetarVisibility(metar) ==
    IF includes(metar, " 1 1/2SM") THEN Frac(3, 2)
    ELSE IF includes(metar, " 1/4SM") THEN Frac(1, 4)
    ELSE IF includes(metar, " 3/4SM") THEN Frac(3, 4)
    ELSE IF includes(metar, " 10SM") THEN Num(10)
    ELSE IF includes(metar, " 5SM") THEN Num(5)
    ELSE Num(10)

\* C26 (as the spec states it): parseMetarConditions returns the visibility
\* the SM group reports, a whole number, a fraction or a whole number plus
\* a fraction, whatever digit groups stand before it, so that a METAR with
\* 1/4SM is classified CRITICAL.
C26_MetarVisibility ==
    MetarRead =>
        /\ NumEq(parseMetarConditions(weatherData.metar).visibility,
                 ReportedMetarVisibility(weatherData.metar))
        /\ includes(weatherData.metar, " 1/4SM") => Status = "CRITICAL"

---------------------------------------------------------------------------
(* The filters of the extractors, checked under SpecStatus.                *)

\* the PIREP is of the last 12 hours
WithinTwelveHours(p) ==
    p.timestamp.valid /\ p.timestamp.ms >= now - 12 * HourMs

RemovableSigmet(g) ==
    /\ g.validTo.valid /\ g.validTo.ms < now
    /\ g.validFrom.valid /\ g.validFrom.ms < now - 12 * HourMs

\* C28 (as the spec states it): fetchSIGMETs never drops an active SIGMET:
\* the returned list is the built list, in payload order, without the
\* records whose validTo is before now and whose validFrom is more than 12
\* hours before now; every active and every future-valid record is returned.
C28_ActiveNeverDropped ==
    Returned =>
        /\ stationStatus[1].sigmets
              = SelectSeq(builtSigmets, LAMBDA g : ~RemovableSigmet(g))
        /\ \A k \in 1..Len(builtSigmets) :
              (\/ builtSigmets[k].isActive
               \/ builtSigmets[k].validFrom.valid /\ builtSigmets[k].validFrom.ms > now)
              => \E j \in 1..Len(stationStatus[1].sigmets) :
                    stationStatus[1].sigmets[j] = builtSigmets[k]

---------------------------------------------------------------------------
(* src/components/WeatherTile.tsx, lines 125-143: ICAOInput, and           *)
(* src/pages/index.tsx, lines 105-141 and 183-270: the station lists of    *)
(* the page.  A StationStatus is kept as its icao and the call that        *)
(* fetched it; fetchStationStatus catches every failure and returns a      *)
(* record (lines 966-976), so no fetch of the page rejects.  An            *)
(* asynchronous call is in inFlight from its start to the state update     *)
(* after its await; the calls in flight complete in any order.             *)

\* the upper-case letter of each lower-case letter
upperOf ==
    [c \in {SubSeq(LOWER, i, i) : i \in 1..26} |->
        LET i == CHOOSE j \in 1..26 : SubSeq(LOWER, j, j) = c
        IN  SubSeq(UPPER, i, i)]

RECURSIVE toUpperCase(_)
toUpperCase(s) ==
    IF Len(s) = 0 THEN ""
    ELSE LET c == CharAt(s, 1)
         IN  (IF c \in DOMAIN upperOf THEN upperOf[c] ELSE c)
             \o toUpperCase(SubSeq(s, 2, Len(s)))

\* String.prototype.split(','), each part trimmed
RECURSIVE splitTrimmed(_)
splitTrimmed(s) ==
    LET comma == FirstMatch({i \in 1..Len(s) : CharAt(s, i) = ","})
    IN  IF comma = 0 THEN <<trim(s)>>
        ELSE <<trim(SubSeq(s, 1, comma - 1))>>
             \o splitTrimmed(SubSeq(s, comma + 1, Len(s)))

\* ICAOInput.handleSubmit: the codes handed to onAddICAOs, <<>> for no call
handleSubmit(input) ==
    IF trim(input) = "" THEN <<>>
    ELSE SelectSeq(splitTrimmed(toUpperCase(input)), testICAO)

\* the codes of a list
CodesOf(q) ==
    {q[i] : i \in DOMAIN q}

\* dispatcherStations.map(s => s.icao)
stationICAOs(stations) ==
    [i \in DOMAIN stations |-> stations[i].icao]

\* addICAOs: the filter of its argument against the list it closes over
validPilotICAOs(icaos, list) ==
    SelectSeq(icaos, LAMBDA code : testICAO(code) /\ code \notin CodesOf(list))

\* addDispatcherStation: the filter of its argument against the stations
\* it closes over
validDispatcherICAOs(icaos, stations) ==
    SelectSeq(icaos, LAMBDA code :
        testICAO(code) /\ code \notin CodesOf(stationICAOs(stations)))

\* the StationStatus records the fetches of a call deliver
fetchedStations(icaos, call) ==
    [i \in DOMAIN icaos |-> [icao |-> icaos[i], by |-> call]]

\* prev.filter(s => s.icao !== icao)
withoutStation(stations, code) ==
    SelectSeq(stations, LAMBDA s : s.icao # code)

\* prev.map(station => station.icao === icao ? updatedStation : station)
withRefreshed(stations, code) ==
    [i \in DOMAIN stations |->
        IF stations[i].icao = code THEN [icao |-> code, by |-> "refresh"]
        ELSE stations[i]]

\* a call in flight: loadDispatcherStations, addDispatcherStation or
\* refreshDispatcherStation with the codes it fetches
Call(op, icaos) ==
    [op |-> op, icaos |-> icaos]

WithoutCall(k) ==
    SubSeq(inFlight, 1, k - 1) \o SubSeq(inFlight, k + 1, Len(inFlight))

\* the first station of the list of line 18
DEFAULT_DISPATCHER_STATIONS ==
    <<"CYYT">>

\* the texts typed into ICAOInput
IcaoInputs ==
    {"  ", "kjfk", "KJFK,KJFK", "cyyt, KJFK", "KJ-K,KJFKX", "CYYT"}

MaxStations == 2

MaxInFlight == 2

InitPage ==
    /\ pc = "page"
    /\ viewMode \in {"pilot", "dispatcher"}
    /\ weatherICAOs = <<>>
    /\ dispatcherStations = <<>>
    /\ selectedStation = NoStation
    /\ isLoading = FALSE
    /\ inFlight = <<>>
    /\ removedStations = {}
    /\ IdleParser
    /\ IdleStatus
    /\ IdleMinima
    /\ IdleFetch
    /\ IdleMapping
    /\ IdleCache

PageOthers ==
    UNCHANGED <<pc, viewMode, parserVars, statusVars, fetchVars, mappingVars,
                cacheVars>>

\* lines 201-211, called by ICAOInput of the pilot view (line 374)
addICAOs ==
    /\ pc = "page" /\ viewMode = "pilot"
    /\ \E input \in IcaoInputs :
          \E validICAOs \in {validPilotICAOs(handleSubmit(input), weatherICAOs)} :
              /\ Len(validICAOs) > 0
              /\ Len(weatherICAOs) + Len(validICAOs) <= MaxStations
              /\ weatherICAOs' = weatherICAOs \o validICAOs
    /\ UNCHANGED <<dispatcherStations, selectedStation, isLoading, inFlight,
                   removedStations, minimaVars>>
    /\ PageOthers

\* lines 213-225, called by the tile of a station (line 397)
removeICAO ==
    /\ pc = "page" /\ viewMode = "pilot"
    /\ \E code \in CodesOf(weatherICAOs) :
          /\ weatherICAOs' = SelectSeq(weatherICAOs, LAMBDA i : i # code)
          /\ individualMinima' =
                [t \in DOMAIN individualMinima |->
                    IF t = code THEN <<>> ELSE individualMinima[t]]
    /\ UNCHANGED <<dispatcherStations, selectedStation, isLoading, inFlight,
                   removedStations, ceilingInput, visInput, globalMinima>>
    /\ PageOthers

\* lines 106-111: loadDispatcherStations(icaos) up to its await
StartLoad(icaos) ==
    /\ Len(icaos) > 0
    /\ Len(inFlight) < MaxInFlight
    /\ inFlight' = Append(inFlight, Call("load", icaos))
    /\ isLoading' = TRUE
    /\ UNCHANGED <<weatherICAOs, dispatcherStations, selectedStation, minimaVars>>
    /\ PageOthers

\* lines 73-79 and 479-481: the stations of the first visit, and the
\* button shown while the list is empty and nothing loads
LoadDefaultStations ==
    /\ pc = "page" /\ viewMode = "dispatcher"
    /\ dispatcherStations = <<>> /\ ~isLoading
    /\ StartLoad(DEFAULT_DISPATCHER_STATIONS)
    /\ removedStations' = removedStations \ CodesOf(DEFAULT_DISPATCHER_STATIONS)

\* lines 443-448: the Refresh All button, disabled while isLoading
RefreshAll ==
    /\ pc = "page" /\ viewMode = "dispatcher"
    /\ ~isLoading
    /\ StartLoad(stationICAOs(dispatcherStations))
    /\ UNCHANGED removedStations

\* lines 183-198: the five minute timer of the dispatcher view
AutoRefresh ==
    /\ pc = "page" /\ viewMode = "dispatcher"
    /\ StartLoad(stationICAOs(dispatcherStations))
    /\ UNCHANGED removedStations

\* lines 131-139: loadDispatcherStations after its await
loadDispatcherStations ==
    /\ pc = "page"
    /\ \E k \in DOMAIN inFlight :
          /\ inFlight[k].op = "load"
          /\ dispatcherStations' = fetchedStations(inFlight[k].icaos, "load")
          /\ inFlight' = WithoutCall(k)
    /\ isLoading' = FALSE
    /\ UNCHANGED <<weatherICAOs, selectedStation, removedStations, minimaVars>>
    /\ PageOthers

\* lines 228-238: addDispatcherStation up to its await, called by ICAOInput
\* of the dispatcher view (line 456)
StartAdd ==
    /\ pc = "page" /\ viewMode = "dispatcher"
    /\ Len(inFlight) < MaxInFlight
    /\ \E input \in IcaoInputs :
          \E validICAOs \in
                {validDispatcherICAOs(handleSubmit(input), dispatcherStations)} :
              /\ Len(validICAOs) > 0
              /\ inFlight' = Append(inFlight, Call("add", validICAOs))
              /\ removedStations' = removedStations \ CodesOf(validICAOs)
    /\ isLoading' = TRUE
    /\ UNCHANGED <<weatherICAOs, dispatcherStations, selectedStation, minimaVars>>
    /\ PageOthers

\* lines 238-246: addDispatcherStation after its await
addDispatcherStation ==
    /\ pc = "page"
    /\ \E k \in DOMAIN inFlight :
          /\ inFlight[k].op = "add"
          /\ Len(dispatcherStations) + Len(inFlight[k].icaos) <= MaxStations
          /\ dispatcherStations' =
                dispatcherStations \o fetchedStations(inFlight[k].icaos, "add")
          /\ inFlight' = WithoutCall(k)
    /\ isLoading' = FALSE
    /\ UNCHANGED <<weatherICAOs, selectedStation, removedStations, minimaVars>>
    /\ PageOthers

\* lines 250-255, called by the tile of a station (line 464)
removeDispatcherStation ==
    /\ pc = "page" /\ viewMode = "dispatcher"
    /\ \E code \in CodesOf(stationICAOs(dispatcherStations)) :
          /\ dispatcherStations' = withoutStation(dispatcherStations, code)
          /\ selectedStation' =
                IF selectedStation = code THEN NoStation ELSE selectedStation
          /\ removedStations' = removedStations \cup {code}
    /\ UNCHANGED <<weatherICAOs, isLoading, inFlight, minimaVars>>
    /\ PageOthers

\* lines 257-259: refreshDispatcherStation up to its await, called by the
\* tile of a station (line 466)
StartRefresh ==
    /\ pc = "page" /\ viewMode = "dispatcher"
    /\ Len(inFlight) < MaxInFlight
    /\ \E code \in CodesOf(stationICAOs(dispatcherStations)) :
          inFlight' = Append(inFlight, Call("refresh", <<code>>))
    /\ isLoading' = TRUE
    /\ UNCHANGED <<weatherICAOs, dispatcherStations, selectedStation,
                   removedStations, minimaVars>>
    /\ PageOthers

\* lines 260-273: refreshDispatcherStation after its await
refreshDispatcherStation ==
    /\ pc = "page"
    /\ \E k \in DOMAIN inFlight :
          /\ inFlight[k].op = "refresh"
          /\ dispatcherStations' =
                withRefreshed(dispatcherStations, inFlight[k].icaos[1])
          /\ inFlight' = WithoutCall(k)
    /\ isLoading' = FALSE
    /\ UNCHANGED <<weatherICAOs, selectedStation, removedStations, minimaVars>>
    /\ PageOthers

\* line 465: the details of a station are opened
ViewDetails ==
    /\ pc = "page" /\ viewMode = "dispatcher"
    /\ \E code \in CodesOf(stationICAOs(dispatcherStations)) :
          /\ selectedStation # code
          /\ selectedStation' = code
    /\ UNCHANGED <<weatherICAOs, dispatcherStations, isLoading, inFlight,
                   removedStations, minimaVars>>
    /\ PageOthers

NextPage ==
    \/ addICAOs
    \/ removeICAO
    \/ LoadDefaultStations
    \/ RefreshAll
    \/ AutoRefresh
    \/ loadDispatcherStations
    \/ StartAdd
    \/ addDispatcherStation
    \/ removeDispatcherStation
    \/ StartRefresh
    \/ refreshDispatcherStation
    \/ ViewDetails

SpecPage ==
    InitPage /\ [][NextPage]_vars

---------------------------------------------------------------------------
(* The station list claims, checked under SpecPage.                        *)

\* C21 (as the spec states it): once removeDispatcherStation has removed a
\* station, its record is absent from dispatcherStations until the station
\* is added again, whichever calls of loadDispatcherStations,
\* refreshDispatcherStation and addDispatcherStation were in flight and in
\* whatever order they complete.
C21_RemovedStaysAbsent ==
    \A code \in removedStations :
        code \notin CodesOf(stationICAOs(dispatcherStations))

\* no code stands twice in the list q
NoDuplicates(q) ==
    \A i, j \in DOMAIN q : q[i] = q[j] => i = j

\* C29 (as the spec states it): after any sequence of submissions of
\* ICAOInput, additions and removals, overlapping asynchronous additions
\* included, the pilot's list and the dispatcher's list hold only codes
\* matching ^[A-Z0-9]{4}$ and hold no code twice.
C29_ValidAndUnique ==
    /\ \A i \in DOMAIN weatherICAOs : testICAO(weatherICAOs[i])
    /\ \A i \in DOMAIN dispatcherStations : testICAO(dispatcherStations[i].icao)
    /\ NoDuplicates(weatherICAOs)
    /\ NoDuplicates(stationICAOs(dispatcherStations))

---------------------------------------------------------------------------
(* src/pages/index.tsx, lines 695-746: fetchWithCache and its cache, the   *)
(* same discipline as src/lib/weatherApi.ts, lines 234-267, which rethrows *)
(* where this one returns null; src/pages/api/weather/[icao].ts, lines     *)
(* 9-70: the handler and its cache.  A call is one step up to its await    *)
(* (answered from the cache, or the fetch started) and one step after it;  *)
(* the clock moves between the steps and the calls in flight complete in   *)
(* any order.                                                              *)

\* src/pages/index.tsx, lines 698-699
CACHE_DURATIONS ==
    [METAR |-> 60000, PIREP |-> 120000]

\* src/pages/api/weather/[icao].ts, line 11
CACHE_DURATION == 60000

\* the clock moves by half a minute, up to MaxClock
TickMs ==
    CACHE_DURATION \div 2

MaxClock == 90000

MaxRequests == 2

\* a call of fetchWithCache (url, cacheKey, cacheDuration), the url given
\* by the station it names
Request(code, cacheKey, cacheDuration) ==
    [station |-> code, key |-> cacheKey, duration |-> cacheDuration]

\* lines 756-760 and 812-816: the calls of fetchWeatherData and fetchPIREPs
ClientRequests ==
    {Request(code, metarKey(code), CACHE_DURATIONS.METAR) : code \in CacheStations}
    \cup {Request("KJFK", pirepKey("KJFK"), CACHE_DURATIONS.PIREP)}

\* what the fetch of a request delivers: the promise rejects, or a response
\* with its ok flag and its text, which names the station of the url
Rejected ==
    [rejected |-> TRUE, ok |-> FALSE, text |-> ""]

Response(ok, text) ==
    [rejected |-> FALSE, ok |-> ok, text |-> text]

Responses(code) ==
    {Rejected,
     Response(FALSE, "Not found " \o code),
     Response(TRUE, "error: no data for " \o code),
     Response(TRUE, "[\"" \o code \o " 10SM\"]"),
     Response(TRUE, code \o " 10SM")}

\* JSON.parse accepts the text
parses(text) ==
    Len(text) > 0 /\ CharAt(text, 1) \in {"[", "{"}

\* lines 727-734: the parsed value, or the text as it is
dataOf(text) ==
    [json |-> parses(text), text |-> text]

\* null, and the body of the responses of status 400 and 500
NullData ==
    [json |-> FALSE, text |-> ""]

Entry(data, timestamp) ==
    <<[data |-> data, timestamp |-> timestamp]>>

\* mutant: an entry answers up to its duration, the boundary included
valid_Inclusive(cached, cacheDuration) ==
    cached # <<>> /\ clock - cached[1].timestamp <= cacheDuration

\* lines 706-708; [icao].ts, lines 40-43: the entry answers the call
valid(cached, cacheDuration) ==
    cached # <<>> /\ clock - cached[1].timestamp < cacheDuration

\* how a call was answered: from the cache, by the fetch, not at all
\* (null, an exception, status 500), or refused (status 400)
Answer(req, how, data) ==
    <<[station |-> req.station, key |-> req.key, how |-> how, data |-> data]>>

\* lines 710-745: what the response lets fetchWithCache store
stores(response) ==
    /\ ~response.rejected
    /\ response.ok
    /\ ~includes(response.text, "error")

InitCache ==
    /\ pc = "cache"
    /\ side \in {"browser", "server"}
    /\ clock = 0
    /\ cache = [k \in ClientKeys |-> <<>>]
    /\ serverCache = [k \in ServerKeys |-> <<>>]
    /\ requests = <<>>
    /\ answer = <<>>
    /\ IdleParser
    /\ IdleStatus
    /\ IdleMinima
    /\ IdleFetch
    /\ IdleMapping
    /\ IdlePage

CacheOthers ==
    UNCHANGED <<pc, side, parserVars, statusVars, minimaVars, fetchVars,
                mappingVars, pageVars>>

\* time passes
Tick ==
    /\ pc = "cache"
    /\ clock < MaxClock
    /\ clock' = clock + TickMs
    /\ UNCHANGED <<cache, serverCache, requests, answer>>
    /\ CacheOthers

\* src/pages/index.tsx, lines 705-712: fetchWithCache up to its await
fetchWithCache ==
    /\ pc = "cache" /\ side = "browser"
    /\ \E req \in ClientRequests :
          IF valid(cache[req.key], req.duration)
          THEN /\ answer' = Answer(req, "cache", cache[req.key][1].data)
               /\ UNCHANGED requests
          ELSE /\ Len(requests) < MaxRequests
               /\ requests' = Append(requests, req)
               /\ UNCHANGED answer
    /\ UNCHANGED <<clock, cache, serverCache>>
    /\ CacheOthers

WithoutRequest(k) ==
    SubSeq(requests, 1, k - 1) \o SubSeq(requests, k + 1, Len(requests))

\* src/pages/index.tsx, lines 712-745: fetchWithCache after its await
fetchWithCacheResponse ==
    /\ pc = "cache" /\ side = "browser"
    /\ \E k \in DOMAIN requests :
          \E response \in Responses(requests[k].station) :
              /\ IF stores(response)
                 THEN /\ cache' = [cache EXCEPT ![requests[k].key] =
                                      Entry(dataOf(response.text), clock)]
                      /\ answer' = Answer(requests[k], "fetched",
                                          dataOf(response.text))
                 ELSE /\ answer' = Answer(requests[k], "failed", NullData)
                      /\ UNCHANGED cache
              /\ requests' = WithoutRequest(k)
    /\ UNCHANGED <<clock, serverCache>>
    /\ CacheOthers

\* the icao of a request to /api/weather
HandlerICAOs ==
    CacheStations \cup {"kjfk"}

\* src/pages/api/weather/[icao].ts, lines 32-48: handler up to its await
handler ==
    /\ pc = "cache" /\ side = "server"
    /\ \E code \in HandlerICAOs :
          \E req \in {Request(code, weatherKey(code), CACHE_DURATION)} :
              IF ~testICAO(code)
              THEN /\ answer' = Answer(req, "refused", NullData)
                   /\ UNCHANGED requests
              ELSE IF valid(serverCache[req.key], CACHE_DURATION)
              THEN /\ answer' = Answer(req, "cache", serverCache[req.key][1].data)
                   /\ UNCHANGED requests
              ELSE /\ Len(requests) < MaxRequests
                   /\ requests' = Append(requests, req)
                   /\ UNCHANGED answer
    /\ UNCHANGED <<clock, cache, serverCache>>
    /\ CacheOthers

\* what fetchWeatherDataServer delivers: the weather of the station, or an
\* exception (lines 317-319)
ServerResults(code) ==
    {Rejected, Response(TRUE, code \o " 10SM")}

\* src/pages/api/weather/[icao].ts, lines 48-69: handler after its await
handlerResponse ==
    /\ pc = "cache" /\ side = "server"
    /\ \E k \in DOMAIN requests :
          \E result \in ServerResults(requests[k].station) :
              /\ IF ~result.rejected
                 THEN /\ serverCache' = [serverCache EXCEPT ![requests[k].key] =
                                            Entry(dataOf(result.text), clock)]
                      /\ answer' = Answer(requests[k], "fetched",
                                          dataOf(result.text))
                 ELSE /\ answer' = Answer(requests[k], "failed", NullData)
                      /\ UNCHANGED serverCache
              /\ requests' = WithoutRequest(k)
    /\ UNCHANGED <<clock, cache>>
    /\ CacheOthers

NextCache ==
    \/ Tick
    \/ fetchWithCache
    \/ fetchWithCacheResponse
    \/ handler
    \/ handlerResponse

SpecCache ==
    InitCache /\ [][NextCache]_vars

---------------------------------------------------------------------------
(* The response cache claim, checked under SpecCache.                      *)

\* the entry under a key in the caches c (browser) and sc (server)
EntryUnder(c, sc, key) ==
    IF key \in ClientKeys THEN c[key] ELSE sc[key]

\* the duration the calls of the model give for a key
DurationOf(key) ==
    IF key \in ServerKeys THEN CACHE_DURATION
    ELSE IF LitAt(key, 1, "metar-") THEN CACHE_DURATIONS.METAR
    ELSE CACHE_DURATIONS.PIREP

\* the entry exists and is younger than the duration
Fresh(entry, duration) ==
    entry # <<>> /\ clock - entry[1].timestamp < duration

\* a call has been answered in this step
Answered(how) ==
    /\ answer' # <<>>
    /\ answer'[1].how = how
    /\ (answer' # answer \/ Len(requests') < Len(requests))

\* C30: an entry is written only when a fetch has succeeded, and then under
\* the key of that call, with the data fetched and the time of the write; a
\* failed fetch leaves both caches as they are; a call is answered from the
\* cache exactly when the entry under its key exists and now - timestamp is
\* strictly less than the duration, and otherwise goes to the network; and
\* the data a call is answered with is data of the station it asked for.
C30_CacheDiscipline ==
    [][/\ (cache' # cache \/ serverCache' # serverCache)
            => /\ Answered("fetched")
               /\ Len(requests') < Len(requests)
               /\ \A key \in ClientKeys \cup ServerKeys :
                     EntryUnder(cache', serverCache', key) =
                        IF key = answer'[1].key
                        THEN Entry(answer'[1].data, clock)
                        ELSE EntryUnder(cache, serverCache, key)
       /\ (Answered("failed") \/ Answered("refused"))
            => cache' = cache /\ serverCache' = serverCache
       /\ Answered("cache")
            => /\ Fresh(EntryUnder(cache, serverCache, answer'[1].key),
                        DurationOf(answer'[1].key))
               /\ answer'[1].data =
                     EntryUnder(cache, serverCache, answer'[1].key)[1].data
               /\ cache' = cache /\ serverCache' = serverCache
       /\ Len(requests') > Len(requests)
            => LET req == requests'[Len(requests')]
               IN  ~Fresh(EntryUnder(cache, serverCache, req.key), req.duration)
       /\ (Answered("cache") \/ Answered("fetched"))
            => includes(answer'[1].data.text, answer'[1].station)
      ]_vars

\* a call for KJFK is answered from an entry half a minute old while the
\* cache holds an entry of CYYT as well
C30_Witness ==
    /\ side = "browser"
    /\ answer # <<>>
    /\ answer[1].how = "cache"
    /\ answer[1].key = metarKey("KJFK")
    /\ cache[metarKey("KJFK")] # <<>>
    /\ clock - cache[metarKey("KJFK")][1].timestamp = TickMs
    /\ cache[metarKey("CYYT")] # <<>>

=============================================================================
